---- MODULE Spec2Model ----
(***************************************************************************)
(* Balance-consistency ledger of the Bitcoin Budget application:           *)
(* BudgetStorageService (categories, transactions, category transfers,     *)
(* reconciliation, unassigned balance) and AccountStorage (accounts and    *)
(* account-to-account transfers).                                          *)
(*                                                                         *)
(* Every store is a function from record ids to records.  One action is    *)
(* one call of a storage method, run to completion (the host runs one      *)
(* mutation at a time).  A call takes the set f of its persistence writes  *)
(* that the store rejects; f = {} is the call in which every write         *)
(* succeeds.  A rejected read ends a call at the same place as the         *)
(* rejected write that follows it, so reads are taken to succeed.          *)
(*                                                                         *)
(* The section "Calls in flight" takes createTransaction apart into its    *)
(* persistence reads and writes, for a host that lets two calls overlap.   *)
(* The section "Query cache" is the hooks' side: the queries the query     *)
(* client has cached, and the mutations with their onSuccess handlers.     *)
(***************************************************************************)
EXTENDS Integers, Sequences, FiniteSets, TLC

VARIABLES budgets, accounts, categories, transactions, transfers,
          encryptionPassword, last, mark, inflight, queries

vars == <<budgets, accounts, categories, transactions, transfers,
          encryptionPassword, last, mark, inflight, queries>>

-----------------------------------------------------------------------------
(* Identifiers and literals of the source *)

NULL == "null"
UNASSIGNED_CATEGORY_ID == "unassigned"
DEFAULT_PASSWORD == "bitcoin-budget-default-password-2024"
DEFAULT_ACCOUNT_ID == "default-account-id"
TRANSFER_TAG == "transfer"
ACCOUNT_TRANSFER_TAG == "account-transfer"
OK == "ok"

(* Bounds of the model: the records a store holds in each specification,    *)
(* and the largest balance                                                 *)
MaxLedger == 1
MaxTransfers == 1
MaxReturns == 2
MaxLegs == 2
MaxDrift == 1
MaxMoves == 2
MaxAbsent == 1
MaxInFlight == 2
MaxBalance == 3

BudgetIds == {"b1"}
CategoryIds == {"c1", "c2"}
AccountIds == {"a1", "a2"}
BalanceRange == (0 - MaxBalance)..MaxBalance

-----------------------------------------------------------------------------
(* Generic helpers *)

RECURSIVE SumOver(_, _)
SumOver(f, S) ==
    IF S = {} THEN 0
    ELSE LET x == CHOOSE y \in S : TRUE IN f[x] + SumOver(f, S \ {x})

Remove(f, k) == [x \in DOMAIN f \ {k} |-> f[x]]

Put(f, k, v) == (k :> v) @@ f

\* a generated id: the smallest number no record uses
FreshId(used) ==
    CHOOSE n \in 1..(Cardinality(used) + 1) :
        n \notin used /\ \A m \in 1..(n - 1) : m \in used

Amounts(recs) == [k \in DOMAIN recs |-> recs[k].amount]

(* The stores as one value, so that a method is an operator from a store   *)
(* to a result [st, error, id].                                            *)
Store ==
    [budgets |-> budgets, accounts |-> accounts, categories |-> categories,
     transactions |-> transactions, transfers |-> transfers]

Result(st, error, id) == [st |-> st, error |-> error, id |-> id]

-----------------------------------------------------------------------------
(* BudgetStorageService: categories *)

getCategoryExists(st, id) == id \in DOMAIN st.categories

\* updateCategory(id, {currentAmount}) once the record was found
updateCategoryAmount(st, id, amount) ==
    [st EXCEPT !.categories[id].currentAmount = amount]

createCategory(st, id, name) ==
    [st EXCEPT !.categories =
        Put(st.categories, id, [name |-> name, currentAmount |-> 0])]

\* a delete that takes the transactions and transfers of the category along
deleteCategoryCascading(st, id) ==
    [st EXCEPT !.categories = Remove(st.categories, id),
               !.transactions =
                   [t \in {u \in DOMAIN st.transactions :
                              st.transactions[u].categoryId # id} |->
                       st.transactions[t]],
               !.transfers =
                   [t \in {u \in DOMAIN st.transfers :
                              id \notin {st.transfers[u].fromCategoryId,
                                         st.transfers[u].toCategoryId}} |->
                       st.transfers[t]]]

\* deleteCategory: deleteData(STORES.CATEGORIES, id) and nothing else
deleteCategory(st, id) ==
    [st EXCEPT !.categories = Remove(st.categories, id)]

createBudget(st, id, pos) ==
    [st EXCEPT !.budgets =
        SubSeq(st.budgets, 1, pos - 1) \o <<id>> \o
        SubSeq(st.budgets, pos, Len(st.budgets))]

-----------------------------------------------------------------------------
(* AccountStorage: records are encrypted under the instance's password; a  *)
(* record that does not decrypt under it reads as absent.                  *)

\* this.encryptionPassword || 'bitcoin-budget-default-password-2024'
servicePassword(pw) == IF pw = NULL THEN DEFAULT_PASSWORD ELSE pw

getAccountExists(st, pw, id) ==
    id \in DOMAIN st.accounts /\ st.accounts[id].password = pw

\* updateAccountBalance -> updateAccount: re-encrypts under this.password
updateAccountBalance(st, pw, id, balance) ==
    [st EXCEPT !.accounts[id].balance = balance,
               !.accounts[id].password = pw]

createAccount(st, pw, id, budgetId, data) ==
    [st EXCEPT !.accounts =
        Put(st.accounts, id,
            [budgetId |-> budgetId, balance |-> data.initialBalance,
             isOnBudget |-> data.isOnBudget, isClosed |-> FALSE,
             password |-> pw])]

\* deleteAccount removes the account record and nothing else
deleteAccount(st, id) ==
    [st EXCEPT !.accounts = Remove(st.accounts, id)]

\* getAccounts(budgetId): the records of the budget that decrypt
getAccounts(st, pw, budgetId) ==
    {a \in DOMAIN st.accounts :
        st.accounts[a].budgetId = budgetId /\ st.accounts[a].password = pw}

-----------------------------------------------------------------------------
(* Transaction Effects Engine *)

CategoryEffectApplies(t) ==
    /\ t.categoryId # NULL
    /\ t.categoryId # UNASSIGNED_CATEGORY_ID
    /\ TRANSFER_TAG \notin t.tags

AccountEffectApplies(t) ==
    /\ t.accountId # NULL
    /\ TRANSFER_TAG \notin t.tags
    /\ ACCOUNT_TRANSFER_TAG \notin t.tags

\* the category balance write of create (+1), delete (-1) and update
ApplyCategoryEffect(st, t, sign) ==
    IF CategoryEffectApplies(t) /\ getCategoryExists(st, t.categoryId)
    THEN updateCategoryAmount(st, t.categoryId,
            st.categories[t.categoryId].currentAmount + sign * t.amount)
    ELSE st

CategoryWrites(st, t) ==
    CategoryEffectApplies(t) /\ getCategoryExists(st, t.categoryId)

ApplyAccountEffect(st, pw, t, sign) ==
    IF getAccountExists(st, pw, t.accountId)
    THEN updateAccountBalance(st, pw, t.accountId,
            st.accounts[t.accountId].balance + sign * t.amount)
    ELSE st

\* a createTransaction that writes the account balance before the category
createTransactionAccountFirst(st, pw, input, f) ==
    LET id  == FreshId(DOMAIN st.transactions)
        s1  == IF AccountEffectApplies(input) /\ "account" \notin f
               THEN ApplyAccountEffect(st, servicePassword(pw), input, 1)
               ELSE st
        s2  == ApplyCategoryEffect(s1, input, 1)
        s3  == [s2 EXCEPT !.transactions = Put(s2.transactions, id, input)]
    IN  IF CategoryWrites(st, input) /\ "category" \in f
        THEN Result(s1, "Failed to update data in categories", 0)
        ELSE IF "record" \in f
        THEN Result(s2, "Failed to add data to transactions", 0)
        ELSE Result(s3, OK, id)

createTransaction(st, pw, input, f) ==
    LET id  == FreshId(DOMAIN st.transactions)
        s1  == ApplyCategoryEffect(st, input, 1)
        s2  == IF AccountEffectApplies(input) /\ "account" \notin f
               THEN ApplyAccountEffect(s1, servicePassword(pw), input, 1)
               ELSE s1
        s3  == [s2 EXCEPT !.transactions = Put(s2.transactions, id, input)]
    IN  IF CategoryWrites(st, input) /\ "category" \in f
        THEN Result(st, "Failed to update data in categories", 0)
        ELSE IF "record" \in f
        THEN Result(s2, "Failed to add data to transactions", 0)
        ELSE Result(s3, OK, id)

\* an update that always rewrites the category balances
CategoryBlockAlwaysRuns(existing, updated) == TRUE

\* the tests that open the two blocks of updateTransaction
CategoryBlockRuns(existing, updated) ==
    existing.categoryId # updated.categoryId \/ existing.amount # updated.amount

\* an account block that runs only when the amount changes
AccountBlockRunsOnAmount(existing, updated) == existing.amount # updated.amount

AccountBlockRuns(existing, updated) ==
    existing.accountId # updated.accountId \/ existing.amount # updated.amount

\* {...existing, ...updates}: updates is a record of the fields it sets
Merge(existing, updates) ==
    [k \in DOMAIN existing |->
        IF k \in DOMAIN updates THEN updates[k] ELSE existing[k]]

updateTransaction(st, pw, id, updates, f) ==
    LET existing == st.transactions[id]
        updated  == Merge(existing, updates)
        catBlock == CategoryBlockRuns(existing, updated)
        accBlock == AccountBlockRuns(existing, updated)
        spw == servicePassword(pw)
        \* category block: reverse the old effect, then apply the new one
        failOld == catBlock /\ CategoryWrites(st, existing) /\ "categoryOld" \in f
        c1 == IF catBlock THEN ApplyCategoryEffect(st, existing, -1) ELSE st
        failNew == catBlock /\ CategoryWrites(c1, updated) /\ "categoryNew" \in f
        c2 == IF catBlock THEN ApplyCategoryEffect(c1, updated, 1) ELSE c1
        \* account block, inside one try: a rejected write skips the rest
        oldWrites == AccountEffectApplies(existing)
                        /\ getAccountExists(c2, spw, existing.accountId)
        a1 == IF accBlock /\ oldWrites /\ "accountOld" \notin f
              THEN ApplyAccountEffect(c2, spw, existing, -1) ELSE c2
        skipNew == oldWrites /\ "accountOld" \in f
        a2 == IF accBlock /\ ~skipNew /\ AccountEffectApplies(updated)
                    /\ "accountNew" \notin f
              THEN ApplyAccountEffect(a1, spw, updated, 1) ELSE a1
        s3 == [a2 EXCEPT !.transactions[id] = updated]
    IN  IF id \notin DOMAIN st.transactions
        THEN Result(st, "Transaction not found", 0)
        ELSE IF failOld
        THEN Result(st, "Failed to update data in categories", id)
        ELSE IF failNew
        THEN Result(c1, "Failed to update data in categories", id)
        ELSE IF "record" \in f
        THEN Result(a2, "Failed to update data in transactions", id)
        ELSE Result(s3, OK, id)

\* an account branch that reverses every transaction of an account
DeleteAccountEffectAlways(t) == t.accountId # NULL

\* the account branch of deleteTransaction: account-transfer legs and
\* regular transactions are reversed, 'transfer' legs are not
DeleteAccountEffectApplies(t) ==
    /\ t.accountId # NULL
    /\ \/ ACCOUNT_TRANSFER_TAG \in t.tags
       \/ TRANSFER_TAG \notin t.tags

deleteTransaction(st, pw, id, f) ==
    LET t  == st.transactions[id]
        s1 == ApplyCategoryEffect(st, t, -1)
        s2 == IF DeleteAccountEffectApplies(t) /\ "account" \notin f
              THEN ApplyAccountEffect(s1, servicePassword(pw), t, -1)
              ELSE s1
        s3 == [s2 EXCEPT !.transactions = Remove(s2.transactions, id)]
    IN  IF id \notin DOMAIN st.transactions
        THEN Result(st, "Transaction not found", 0)
        ELSE IF CategoryWrites(st, t) /\ "category" \in f
        THEN Result(st, "Failed to update data in categories", id)
        ELSE IF "record" \in f
        THEN Result(s2, "Failed to delete data from transactions", id)
        ELSE Result(s3, OK, id)

-----------------------------------------------------------------------------
(* Transfer Engine: category transfers *)

\* a credit that leaves the destination category as it was
CreditedAmountKept(current, amount) == current

\* the amounts createTransfer writes to the categories
CreditedAmount(current, amount) == current + amount

\* a debit that leaves the source category as it was
DebitedAmountKept(current, amount) == current

DebitedAmount(current, amount) == current - amount

\* input.description || 'Transfer'
TransferDescription(d) == IF d = "" THEN "Transfer" ELSE d

\* a synthesized transaction filed under no category
SynthesizedTransactionUnfiled(input, amount, categoryId) ==
    [amount |-> amount, categoryId |-> NULL,
     accountId |-> DEFAULT_ACCOUNT_ID, tags |-> {TRANSFER_TAG},
     description |-> TransferDescription(input.description)]

\* the transaction createTransfer synthesizes for an UNASSIGNED endpoint
SynthesizedTransaction(input, amount, categoryId) ==
    [amount |-> amount, categoryId |-> categoryId,
     accountId |-> DEFAULT_ACCOUNT_ID, tags |-> {TRANSFER_TAG},
     description |-> TransferDescription(input.description)]

\* Promise.all of two updateCategory calls whose new amounts were computed
\* before either ran; the write in f is rejected, the other still lands,
\* and on one record the write that completes last stays
ParallelCategoryWrites(st, fromId, fromAmount, toId, toAmount, order, f) ==
    LET wFrom(s) == IF "categoryFrom" \in f THEN s
                    ELSE updateCategoryAmount(s, fromId, fromAmount)
        wTo(s)   == IF "categoryTo" \in f THEN s
                    ELSE updateCategoryAmount(s, toId, toAmount)
    IN  IF order = "fromFirst" THEN wTo(wFrom(st)) ELSE wFrom(wTo(st))

AddTransfer(st, input, f) ==
    LET id == FreshId(DOMAIN st.transfers)
    IN  IF "record" \in f
        THEN Result(st, "Failed to add data to transfers", 0)
        ELSE Result([st EXCEPT !.transfers = Put(st.transfers, id, input)],
                    OK, id)

\* createTransfer up to its last statement: the synthesized transaction
\* and the category edits of the branch the endpoints select
TransferWrites(st, pw, input, order, f) ==
    LET from == input.fromCategoryId
        to   == input.toCategoryId
        txf  == IF "transaction" \in f THEN {"record"} ELSE {}
    IN  IF from = UNASSIGNED_CATEGORY_ID
        THEN IF ~getCategoryExists(st, to)
             THEN Result(st, "Destination category not found", 0)
             ELSE LET tx == createTransaction(st, pw,
                              SynthesizedTransaction(input, 0 - input.amount, from), txf)
                      s2 == updateCategoryAmount(tx.st, to,
                              CreditedAmount(st.categories[to].currentAmount, input.amount))
                  IN  IF tx.error # OK THEN Result(tx.st, tx.error, 0)
                      ELSE IF "categoryTo" \in f
                      THEN Result(tx.st, "Failed to update data in categories", 0)
                      ELSE Result(s2, OK, 0)
        ELSE IF to = UNASSIGNED_CATEGORY_ID
        THEN IF ~getCategoryExists(st, from)
             THEN Result(st, "Source category not found", 0)
             ELSE LET tx == createTransaction(st, pw,
                              SynthesizedTransaction(input, input.amount, to), txf)
                      s2 == updateCategoryAmount(tx.st, from,
                              DebitedAmount(tx.st.categories[from].currentAmount, input.amount))
                  IN  IF tx.error # OK THEN Result(tx.st, tx.error, 0)
                      ELSE IF "categoryFrom" \in f
                      THEN Result(tx.st, "Failed to update data in categories", 0)
                      ELSE Result(s2, OK, 0)
        ELSE IF ~getCategoryExists(st, from)
        THEN Result(st, "Source category not found", 0)
        ELSE IF ~getCategoryExists(st, to)
        THEN Result(st, "Destination category not found", 0)
        ELSE LET s2 == ParallelCategoryWrites(st,
                          from, DebitedAmount(st.categories[from].currentAmount, input.amount),
                          to, CreditedAmount(st.categories[to].currentAmount, input.amount),
                          order, f)
             IN  IF f \cap {"categoryFrom", "categoryTo"} # {}
                 THEN Result(s2, "Failed to update data in categories", 0)
                 ELSE Result(s2, OK, 0)

\* a createTransfer that saves the transfer record before anything else
createTransferRecordFirst(st, pw, input, order, f) ==
    LET a == AddTransfer(st, input, f)
        w == TransferWrites(a.st, pw, input, order, f)
    IN  IF a.error # OK THEN a ELSE Result(w.st, w.error, a.id)

createTransfer(st, pw, input, order, f) ==
    LET w == TransferWrites(st, pw, input, order, f)
    IN  IF w.error # OK THEN w ELSE AddTransfer(w.st, input, f)

\* transactions.find(...) of deleteTransfer: the candidates it can return
TransferTransactionMatches(st, amount, description) ==
    {t \in DOMAIN st.transactions :
        /\ st.transactions[t].amount = amount
        /\ st.transactions[t].description = description
        /\ TRANSFER_TAG \in st.transactions[t].tags}

\* find returns the first match in key order; keys are random UUIDs, so
\* any match can be the first: pick is that match (0 when there is none)
FindPicks(matches) == IF matches = {} THEN {0} ELSE matches

RemoveTransfer(st, id, f) ==
    IF "record" \in f
    THEN Result(st, "Failed to delete data from transfers", id)
    ELSE Result([st EXCEPT !.transfers = Remove(st.transfers, id)], OK, id)

deleteTransferMatches(st, id) ==
    LET transfer == st.transfers[id]
        from == transfer.fromCategoryId
        to   == transfer.toCategoryId
    IN  IF id \notin DOMAIN st.transfers THEN {}
        ELSE IF from = UNASSIGNED_CATEGORY_ID
        THEN IF ~getCategoryExists(st, to) THEN {}
             ELSE TransferTransactionMatches(st, 0 - transfer.amount,
                      "Transfer to " \o st.categories[to].name)
        ELSE IF to = UNASSIGNED_CATEGORY_ID
        THEN IF ~getCategoryExists(st, from) THEN {}
             ELSE TransferTransactionMatches(st, transfer.amount,
                      "Transfer from " \o st.categories[from].name)
        ELSE {}

deleteTransfer(st, pw, id, pick, order, f) ==
    LET transfer == st.transfers[id]
        from == transfer.fromCategoryId
        to   == transfer.toCategoryId
        txf  == IF "transaction" \in f THEN {"record"} ELSE {}
        del  == IF pick = 0 THEN Result(st, OK, 0)
                ELSE deleteTransaction(st, pw, pick, txf)
    IN  IF id \notin DOMAIN st.transfers
        THEN Result(st, "Transfer not found", 0)
        ELSE IF from = UNASSIGNED_CATEGORY_ID
        THEN IF ~getCategoryExists(st, to)
             THEN Result(st, "Destination category not found", id)
             ELSE IF del.error # OK THEN Result(del.st, del.error, id)
             ELSE IF "categoryTo" \in f
             THEN Result(del.st, "Failed to update data in categories", id)
             ELSE RemoveTransfer(
                    updateCategoryAmount(del.st, to,
                        st.categories[to].currentAmount - transfer.amount),
                    id, f)
        ELSE IF to = UNASSIGNED_CATEGORY_ID
        THEN IF ~getCategoryExists(st, from)
             THEN Result(st, "Source category not found", id)
             ELSE IF del.error # OK THEN Result(del.st, del.error, id)
             ELSE IF "categoryFrom" \in f
             THEN Result(del.st, "Failed to update data in categories", id)
             ELSE RemoveTransfer(
                    updateCategoryAmount(del.st, from,
                        st.categories[from].currentAmount + transfer.amount),
                    id, f)
        ELSE IF ~getCategoryExists(st, from)
        THEN Result(st, "Source category not found", id)
        ELSE IF ~getCategoryExists(st, to)
        THEN Result(st, "Destination category not found", id)
        ELSE LET s2 == ParallelCategoryWrites(st,
                          from, st.categories[from].currentAmount + transfer.amount,
                          to, st.categories[to].currentAmount - transfer.amount,
                          order, f)
             IN  IF f \cap {"categoryFrom", "categoryTo"} # {}
                 THEN Result(s2, "Failed to update data in categories", id)
                 ELSE RemoveTransfer(s2, id, f)

-----------------------------------------------------------------------------
(* Reconciliation Engine and Unassigned Calculator *)

\* a recalculation that counts account-transfer legs as category spending
CategoryLedgerBalanceWithLegs(st, c) ==
    LET transfersTo   == {t \in DOMAIN st.transfers : st.transfers[t].toCategoryId = c}
        transfersFrom == {t \in DOMAIN st.transfers : st.transfers[t].fromCategoryId = c}
        categoryTransactions ==
            {t \in DOMAIN st.transactions :
                /\ st.transactions[t].categoryId = c
                /\ TRANSFER_TAG \notin st.transactions[t].tags}
    IN  SumOver(Amounts(st.transfers), transfersTo)
          - SumOver(Amounts(st.transfers), transfersFrom)
          + SumOver(Amounts(st.transactions), categoryTransactions)

\* the balance recalculateCategoryBalances computes for one category
CategoryLedgerBalance(st, c) ==
    LET transfersTo   == {t \in DOMAIN st.transfers : st.transfers[t].toCategoryId = c}
        transfersFrom == {t \in DOMAIN st.transfers : st.transfers[t].fromCategoryId = c}
        categoryTransactions ==
            {t \in DOMAIN st.transactions :
                /\ st.transactions[t].categoryId = c
                /\ TRANSFER_TAG \notin st.transactions[t].tags
                /\ ACCOUNT_TRANSFER_TAG \notin st.transactions[t].tags}
    IN  SumOver(Amounts(st.transfers), transfersTo)
          - SumOver(Amounts(st.transfers), transfersFrom)
          + SumOver(Amounts(st.transactions), categoryTransactions)

\* a loop that writes every category back, changed or not
EveryCategory(st) == DOMAIN st.categories

\* the categories the loop writes: category.currentAmount !== balance
StaleCategories(st) ==
    {c \in DOMAIN st.categories :
        st.categories[c].currentAmount # CategoryLedgerBalance(st, c)}

\* the loop of recalculateCategoryBalances over the categories in done;
\* each category is written from the lists read before the loop
recalculateCategoryBalances(st, done) ==
    [st EXCEPT !.categories =
        [c \in DOMAIN st.categories |->
            IF c \in done /\ c \in StaleCategories(st)
            THEN [st.categories[c] EXCEPT !.currentAmount = CategoryLedgerBalance(st, c)]
            ELSE st.categories[c]]]

\* the balance recalculateAccountBalances computes for one account
AccountLedgerBalance(st, a) ==
    SumOver(Amounts(st.transactions),
        {t \in DOMAIN st.transactions :
            /\ st.transactions[t].accountId = a
            /\ TRANSFER_TAG \notin st.transactions[t].tags})

BudgetsOf(st) == {st.budgets[i] : i \in 1..Len(st.budgets)}

\* the accounts recalculateAccountBalances visits: those of a stored
\* budget that decrypt under the service's password
RecalculatedAccounts(st, pw) ==
    UNION {getAccounts(st, servicePassword(pw), b) : b \in BudgetsOf(st)}

recalculateAccountBalances(st, pw, done) ==
    [st EXCEPT !.accounts =
        [a \in DOMAIN st.accounts |->
            IF a \in done /\ a \in RecalculatedAccounts(st, pw)
                /\ st.accounts[a].balance # AccountLedgerBalance(st, a)
            THEN [st.accounts[a] EXCEPT !.balance = AccountLedgerBalance(st, a)]
            ELSE st.accounts[a]]]

getUnassignedBalance(st, pw) ==
    LET unassignedTransactions ==
            {t \in DOMAIN st.transactions :
                /\ st.transactions[t].categoryId = NULL
                /\ TRANSFER_TAG \notin st.transactions[t].tags
                /\ ACCOUNT_TRANSFER_TAG \notin st.transactions[t].tags}
        transactionBalance == SumOver(Amounts(st.transactions), unassignedTransactions)
        onBudget ==
            IF Len(st.budgets) = 0 THEN {}
            ELSE {a \in getAccounts(st, servicePassword(pw), st.budgets[1]) :
                    st.accounts[a].isOnBudget /\ ~st.accounts[a].isClosed}
        accountBalance ==
            SumOver([a \in DOMAIN st.accounts |-> st.accounts[a].balance], onBudget)
        totalAllocatedToCategories ==
            SumOver([c \in DOMAIN st.categories |-> st.categories[c].currentAmount],
                    DOMAIN st.categories)
    IN  accountBalance + transactionBalance - totalAllocatedToCategories

\* the accounts both derived reads add up: those of the first stored
\* budget that decrypt, are on-budget and are not closed
OnBudgetAccounts(st, pw) ==
    IF Len(st.budgets) = 0 THEN {}
    ELSE {a \in getAccounts(st, servicePassword(pw), st.budgets[1]) :
            st.accounts[a].isOnBudget /\ ~st.accounts[a].isClosed}

\* getBudgetSummary, without totalAllocated (the sum of the categories'
\* targetAmount, which no balance depends on)
getBudgetSummary(st, pw) ==
    LET untagged ==
            {t \in DOMAIN st.transactions :
                /\ TRANSFER_TAG \notin st.transactions[t].tags
                /\ ACCOUNT_TRANSFER_TAG \notin st.transactions[t].tags}
        transactionIncome ==
            SumOver(Amounts(st.transactions),
                    {t \in untagged : st.transactions[t].amount > 0})
        accountIncome ==
            SumOver([a \in DOMAIN st.accounts |-> st.accounts[a].balance],
                    OnBudgetAccounts(st, pw))
        expenses ==
            0 - SumOver(Amounts(st.transactions),
                        {t \in untagged : st.transactions[t].amount < 0})
    IN  [totalIncome |-> transactionIncome + accountIncome,
         totalExpenses |-> expenses,
         totalAvailable |->
            SumOver([c \in DOMAIN st.categories |-> st.categories[c].currentAmount],
                    DOMAIN st.categories),
         categoryCount |-> Cardinality(DOMAIN st.categories),
         transactionCount |-> Cardinality(DOMAIN st.transactions)]

-----------------------------------------------------------------------------
(* Transfer Engine: account transfers *)

\* `transfer-${transferId}` for a fresh transferId
CorrelationTag(n) == "transfer-" \o ToString(n)

UsedCorrelations(st) ==
    {n \in 1..Cardinality(DOMAIN st.transactions) :
        \E t \in DOMAIN st.transactions : CorrelationTag(n) \in st.transactions[t].tags}

AccountTransferDescription(data) ==
    IF data.description = ""
    THEN "Transfer from " \o data.fromAccountId \o " to " \o data.toAccountId
    ELSE data.description

\* a leg that carries no correlation tag
TransferLegUncorrelated(data, amount, accountId, suffix, transferId) ==
    [amount |-> amount, categoryId |-> NULL, accountId |-> accountId,
     tags |-> {ACCOUNT_TRANSFER_TAG},
     description |-> AccountTransferDescription(data) \o suffix]

TransferLeg(data, amount, accountId, suffix, transferId) ==
    [amount |-> amount, categoryId |-> NULL, accountId |-> accountId,
     tags |-> {ACCOUNT_TRANSFER_TAG, CorrelationTag(transferId)},
     description |-> AccountTransferDescription(data) \o suffix]

\* Promise.all of two updateAccountBalance calls, as for the categories
ParallelAccountWrites(st, pw, fromId, fromBalance, toId, toBalance, order, wf) ==
    LET wFrom(s) == IF "from" \in wf THEN s
                    ELSE updateAccountBalance(s, pw, fromId, fromBalance)
        wTo(s)   == IF "to" \in wf THEN s
                    ELSE updateAccountBalance(s, pw, toId, toBalance)
    IN  IF order = "fromFirst" THEN wTo(wFrom(st)) ELSE wFrom(wTo(st))

\* a transfer that never checks the source balance
InsufficientFundsUnchecked(balance, amount) == FALSE

InsufficientFunds(balance, amount) == balance < amount

\* a catch block that writes back the balance it finds
RollbackBalanceCurrent(original, current) == current

\* the balance the catch block writes back: the one read at the start
RollbackBalance(original, current) == original

\* transferBetweenAccounts once its three checks have passed: the balance
\* writes, the two legs and the catch block
\* a catch block that reports the failed leg whatever the rollback did
CaughtErrorOfLeg(legError, f) ==
    "Failed to create transfer transactions: " \o legError

\* what the catch block throws: a rejected rollback write ends the block
\* with its own error before the throw of the last line is reached
CaughtError(legError, f) ==
    IF f \cap {"rollback-from", "rollback-to"} # {}
    THEN "Failed to update account"
    ELSE "Failed to create transfer transactions: " \o legError

TransferSteps(st, pw, svc, data, order, f) ==
    LET from == data.fromAccountId
        to   == data.toAccountId
        fromBalance == st.accounts[from].balance
        toBalance   == st.accounts[to].balance
        s1 == ParallelAccountWrites(st, pw, from, fromBalance - data.amount,
                  to, toBalance + data.amount, order,
                  {w \in {"from", "to"} : ("balance-" \o w) \in f})
        transferId == FreshId(UsedCorrelations(st))
        leg1 == createTransaction(s1, svc,
                    TransferLeg(data, 0 - data.amount, from, " (Outgoing)", transferId),
                    IF "outgoing" \in f THEN {"record"} ELSE {})
        leg2 == createTransaction(leg1.st, svc,
                    TransferLeg(data, data.amount, to, " (Incoming)", transferId),
                    IF "incoming" \in f THEN {"record"} ELSE {})
        failed == IF leg1.error # OK THEN leg1 ELSE leg2
        \* catch: write both balances read at the start back
        s3 == ParallelAccountWrites(failed.st, pw,
                  from, RollbackBalance(fromBalance, failed.st.accounts[from].balance),
                  to, RollbackBalance(toBalance, failed.st.accounts[to].balance), order,
                  {w \in {"from", "to"} : ("rollback-" \o w) \in f})
    IN  IF f \cap {"balance-from", "balance-to"} # {}
        THEN Result(s1, "Failed to update account", 0)
        ELSE IF leg1.error = OK /\ leg2.error = OK
        THEN Result(leg2.st, OK, transferId)
        ELSE Result(s3, CaughtError(failed.error, f), 0)

\* a transfer that debits the source before it looks the destination up
transferBetweenAccountsDebitsFirst(st, pw, svc, data, order, f) ==
    IF ~getAccountExists(st, pw, data.fromAccountId)
    THEN Result(st, "Source account not found", 0)
    ELSE IF InsufficientFunds(st.accounts[data.fromAccountId].balance, data.amount)
    THEN Result(st, "Insufficient funds in source account", 0)
    ELSE IF ~getAccountExists(st, pw, data.toAccountId)
    THEN Result(updateAccountBalance(st, pw, data.fromAccountId,
                    st.accounts[data.fromAccountId].balance - data.amount),
                "Destination account not found", 0)
    ELSE TransferSteps(st, pw, svc, data, order, f)

transferBetweenAccounts(st, pw, svc, data, order, f) ==
    IF ~getAccountExists(st, pw, data.fromAccountId)
    THEN Result(st, "Source account not found", 0)
    ELSE IF ~getAccountExists(st, pw, data.toAccountId)
    THEN Result(st, "Destination account not found", 0)
    ELSE IF InsufficientFunds(st.accounts[data.fromAccountId].balance, data.amount)
    THEN Result(st, "Insufficient funds in source account", 0)
    ELSE TransferSteps(st, pw, svc, data, order, f)

-----------------------------------------------------------------------------
(* The object each store receives *)

\* encryptData: an EncryptedData {data, iv, salt}; the cipher text is a
\* function of the plain text and the password, iv and salt are random
encryptData(data, password) ==
    [data |-> <<"cipher", password, data>>, iv |-> "iv", salt |-> "salt"]

\* encryptIfEnabled: the data itself unless encryption is on
encryptIfEnabled(pw, data) ==
    IF pw = NULL THEN data ELSE encryptData(data, pw)

\* AccountStorage hands store.add / store.put the account's id and budget
\* next to the encrypted account; BudgetStorageService hands addData /
\* updateData the entity itself and never calls encryptIfEnabled
Persisted(store, id, record) ==
    IF store = "accounts"
    THEN [id |-> id, budgetId |-> record.budgetId,
          data |-> encryptData(record, record.password)]
    ELSE IF store = "budgets"
    THEN [id |-> id]
    ELSE record @@ [id |-> id]

\* exportData: the collections it reads, as the JSON text lists them
exportData(st) ==
    [budgets |-> st.budgets, categories |-> st.categories,
     transactions |-> st.transactions, transfers |-> st.transfers]

\* clearAllData clears the budgets, categories, transactions and transfers
\* stores (and the metadata); the accounts store is not among them
clearAllData(st) ==
    [st EXCEPT !.budgets = <<>>, !.categories = <<>>,
               !.transactions = <<>>, !.transfers = <<>>]

\* initialize(password) on a database without metadata
initialize(password) == password

-----------------------------------------------------------------------------
(* Observers.  last is the call that made the latest step: its name, its   *)
(* input (with the writes f the store rejected) and how it ended.  mark    *)
(* follows a create through the call right after it: "created" after a     *)
(* successful createTransaction or createTransfer, with the stores and the *)
(* unassigned balance from before it; "undone" when the next call deletes  *)
(* what was created; "returned" when the next call is the createTransfer   *)
(* that sends the same amount back to UNASSIGNED; "recalculated" after a   *)
(* recalculateCategoryBalances, with the categories the first run wrote    *)
(* and whether a second run followed it at once.                           *)

NoMark == [state |-> "none"]

Observe(op, input, r) ==
    last' = [op |-> op, input |-> input, error |-> r.error, id |-> r.id]

Undoes(op, input) ==
    /\ mark.state = "created"
    /\ \/ op = "deleteTransaction" /\ mark.op = "createTransaction"
       \/ op = "deleteTransfer" /\ mark.op = "createTransfer"
    /\ input.id = mark.id

Returns(op, input) ==
    /\ mark.state = "created"
    /\ op = "createTransfer" /\ mark.op = "createTransfer"
    /\ mark.input.fromCategoryId = UNASSIGNED_CATEGORY_ID
    /\ input.fromCategoryId = mark.input.toCategoryId
    /\ input.toCategoryId = UNASSIGNED_CATEGORY_ID
    /\ input.amount = mark.input.amount

\* the call deletes a leg of the account transfer that mark holds
DeletesLeg(op, input) ==
    /\ mark.state = "transferred"
    /\ op = "deleteTransaction"
    /\ input.id \in mark.legs

Follow(op, input, r) ==
    mark' =
        IF r.error = OK /\ Undoes(op, input)
        THEN [mark EXCEPT !.state = "undone"]
        ELSE IF r.error = OK /\ DeletesLeg(op, input)
        THEN [mark EXCEPT !.legs = @ \ {input.id}]
        ELSE IF r.error = OK /\ op = "transferBetweenAccounts"
        THEN [state |-> "transferred", input |-> input,
              legs |-> DOMAIN r.st.transactions \ DOMAIN transactions,
              before |-> Store]
        ELSE IF r.error = OK /\ Returns(op, input)
        THEN [mark EXCEPT !.state = "returned"]
        ELSE IF r.error = OK /\ op = "recalculateCategoryBalances"
        THEN IF mark.state = "recalculated"
             THEN [mark EXCEPT !.runs = 2]
             ELSE [state |-> "recalculated", runs |-> 1, first |-> input.written]
        ELSE IF r.error = OK /\ op \in {"createTransaction", "createTransfer"}
        THEN [state |-> "created", op |-> op, id |-> r.id, input |-> input,
              before |-> Store,
              unassigned |-> getUnassignedBalance(Store, encryptionPassword)]
        ELSE NoMark

Commit(r) ==
    /\ budgets' = r.st.budgets
    /\ accounts' = r.st.accounts
    /\ categories' = r.st.categories
    /\ transactions' = r.st.transactions
    /\ transfers' = r.st.transfers
    /\ \A c \in DOMAIN r.st.categories :
          r.st.categories[c].currentAmount \in BalanceRange
    /\ \A a \in DOMAIN r.st.accounts : r.st.accounts[a].balance \in BalanceRange

\* a storage call and what the observers keep of it
Stored(op, input, r) ==
    /\ Commit(r)
    /\ Observe(op, input, r)
    /\ Follow(op, input, r)
    /\ UNCHANGED <<encryptionPassword, inflight>>

\* a storage call made outside the hooks: no cached query is touched
Call(op, input, r) ==
    /\ Stored(op, input, r)
    /\ UNCHANGED queries

-----------------------------------------------------------------------------
(* Actions: one call of a storage method each *)

CreateBudget(id, pos) ==
    /\ id \notin BudgetsOf(Store)
    /\ Call("createBudget", [id |-> id],
            Result(createBudget(Store, id, pos), OK, 0))

CreateCategory(id) ==
    /\ id \notin DOMAIN categories
    /\ Call("createCategory", [id |-> id],
            Result(createCategory(Store, id, id), OK, 0))

DeleteCategory(id) ==
    Call("deleteCategory", [id |-> id], Result(deleteCategory(Store, id), OK, 0))

DeleteAccount(id) ==
    Call("deleteAccount", [id |-> id], Result(deleteAccount(Store, id), OK, 0))

\* the storage service is initialized once, before its first call
Initialize(password) ==
    /\ last.op = "init"
    /\ encryptionPassword' = initialize(password)
    /\ last' = [op |-> "initialize", input |-> [password |-> password],
                error |-> OK, id |-> 0]
    /\ mark' = NoMark
    /\ UNCHANGED <<budgets, accounts, categories, transactions, transfers,
                   inflight, queries>>

\* mark keeps the snapshot until the next call
ExportData ==
    /\ last' = [op |-> "exportData", input |-> <<>>, error |-> OK, id |-> 0]
    /\ mark' = [state |-> "exported", snapshot |-> exportData(Store)]
    /\ UNCHANGED <<budgets, accounts, categories, transactions, transfers,
                   encryptionPassword, inflight, queries>>

CreateAccount(pw, id, budgetId, data) ==
    /\ id \notin DOMAIN accounts
    /\ Call("createAccount", [id |-> id, data |-> data],
            Result(createAccount(Store, pw, id, budgetId, data), OK, 0))

CreateTransaction(input, f) ==
    Call("createTransaction", input @@ [fault |-> f],
         createTransaction(Store, encryptionPassword, input, f))

UpdateTransaction(id, updates, f) ==
    Call("updateTransaction", [id |-> id, updates |-> updates, fault |-> f],
         updateTransaction(Store, encryptionPassword, id, updates, f))

DeleteTransaction(id, f) ==
    Call("deleteTransaction", [id |-> id, fault |-> f],
         deleteTransaction(Store, encryptionPassword, id, f))

CreateTransfer(input, order, f) ==
    Call("createTransfer", input @@ [fault |-> f],
         createTransfer(Store, encryptionPassword, input, order, f))

DeleteTransfer(id, order, f) ==
    \E pick \in FindPicks(deleteTransferMatches(Store, id)) :
        Call("deleteTransfer", [id |-> id, fault |-> f],
             deleteTransfer(Store, encryptionPassword, id, pick, order, f))

TransferBetweenAccounts(pw, data, order, f) ==
    Call("transferBetweenAccounts", data @@ [fault |-> f],
         transferBetweenAccounts(Store, pw, encryptionPassword, data, order, f))

ClearAllData ==
    Call("clearAllData", <<>>, Result(clearAllData(Store), OK, 0))

\* the derived reads: neither method holds a write, so a call leaves every
\* store as it is and last keeps the value returned
GetUnassignedBalance ==
    /\ last' = [op |-> "getUnassignedBalance", input |-> <<>>, error |-> OK,
                id |-> 0, before |-> Store,
                value |-> getUnassignedBalance(Store, encryptionPassword)]
    /\ mark' = NoMark
    /\ UNCHANGED <<budgets, accounts, categories, transactions, transfers,
                   encryptionPassword, inflight, queries>>

GetBudgetSummary ==
    /\ last' = [op |-> "getBudgetSummary", input |-> <<>>, error |-> OK,
                id |-> 0, before |-> Store,
                value |-> getBudgetSummary(Store, encryptionPassword)]
    /\ mark' = NoMark
    /\ UNCHANGED <<budgets, accounts, categories, transactions, transfers,
                   encryptionPassword, inflight, queries>>

\* a rejected write ends the loop after the categories in done
RecalculateCategoryBalances(done) ==
    LET st == recalculateCategoryBalances(Store, done)
        written == StaleCategories(Store)
    IN  Call("recalculateCategoryBalances", [written |-> written \cap done],
             Result(st, IF written \subseteq done THEN OK
                        ELSE "Failed to update data in categories", 0))

\* a rejected write ends the loop too, but the error is caught and logged
RecalculateAccountBalances(done) ==
    Call("recalculateAccountBalances", [done |-> done],
         Result(recalculateAccountBalances(Store, encryptionPassword, done), OK, 0))

-----------------------------------------------------------------------------
(* Calls in flight.  inflight.calls gives every call of createTransaction   *)
(* its position and the balances it has read; inflight.overlapped tells     *)
(* whether a call ever began while another had not returned.                *)

Callers == 1..MaxInFlight

Idle == [pc |-> "idle"]

NoneInFlight == [calls |-> [p \in Callers |-> Idle], overlapped |-> FALSE]

Running(p) == inflight.calls[p].pc \notin {"idle", "returned"}

Advance(p, call) == inflight' = [inflight EXCEPT !.calls[p] = call]

\* a balance write that forgets what was read
WrittenBalanceFromZero(read, amount) == amount

\* category.currentAmount + transaction.amount, account.balance +
\* transaction.amount: computed from the record read earlier
WrittenBalance(read, amount) == read + amount

Quiet == UNCHANGED <<encryptionPassword, last, mark, queries>>

\* the call is made: the transaction object is built
BeginCreateTransaction(p, input) ==
    /\ inflight.calls[p] = Idle
    /\ inflight' =
          [calls |-> [inflight.calls EXCEPT ![p] =
                        [pc |-> "called", input |-> input, read |-> 0]],
           overlapped |-> inflight.overlapped \/ \E q \in Callers : Running(q)]
    /\ Quiet
    /\ UNCHANGED <<budgets, accounts, categories, transactions, transfers>>

\* getCategory, when the category branch is taken
ReadCategory(p) ==
    LET call == inflight.calls[p]
    IN  /\ call.pc = "called"
        /\ IF CategoryWrites(Store, call.input)
           THEN Advance(p, [call EXCEPT !.pc = "categoryRead",
                    !.read = categories[call.input.categoryId].currentAmount])
           ELSE Advance(p, [call EXCEPT !.pc = "categoryDone"])
        /\ Quiet
        /\ UNCHANGED <<budgets, accounts, categories, transactions, transfers>>

\* updateCategory with the amount computed from the category read
WriteCategory(p) ==
    LET call == inflight.calls[p]
    IN  /\ call.pc = "categoryRead"
        /\ getCategoryExists(Store, call.input.categoryId)
        /\ Commit(Result(updateCategoryAmount(Store, call.input.categoryId,
                      WrittenBalance(call.read, call.input.amount)), OK, 0))
        /\ Advance(p, [call EXCEPT !.pc = "categoryDone"])
        /\ Quiet

\* accountStorage.getAccount, when the account branch is taken
ReadAccount(p) ==
    LET call == inflight.calls[p]
        pw == servicePassword(encryptionPassword)
    IN  /\ call.pc = "categoryDone"
        /\ IF /\ AccountEffectApplies(call.input)
              /\ getAccountExists(Store, pw, call.input.accountId)
           THEN Advance(p, [call EXCEPT !.pc = "accountRead",
                    !.read = accounts[call.input.accountId].balance])
           ELSE Advance(p, [call EXCEPT !.pc = "accountDone"])
        /\ Quiet
        /\ UNCHANGED <<budgets, accounts, categories, transactions, transfers>>

\* updateAccountBalance with the balance computed from the account read
WriteAccount(p) ==
    LET call == inflight.calls[p]
        pw == servicePassword(encryptionPassword)
    IN  /\ call.pc = "accountRead"
        /\ getAccountExists(Store, pw, call.input.accountId)
        /\ Commit(Result(updateAccountBalance(Store, pw, call.input.accountId,
                      WrittenBalance(call.read, call.input.amount)), OK, 0))
        /\ Advance(p, [call EXCEPT !.pc = "accountDone"])
        /\ Quiet

\* addData(STORES.TRANSACTIONS, transaction) and the return
AddTransaction(p) ==
    LET call == inflight.calls[p]
        id == FreshId(DOMAIN transactions)
    IN  /\ call.pc = "accountDone"
        /\ Commit(Result([Store EXCEPT !.transactions =
                              Put(transactions, id, call.input)], OK, id))
        /\ Advance(p, [call EXCEPT !.pc = "returned"])
        /\ last' = [op |-> "createTransaction",
                    input |-> call.input @@ [fault |-> {}],
                    error |-> OK, id |-> id]
        /\ mark' = NoMark
        /\ UNCHANGED <<encryptionPassword, queries>>

-----------------------------------------------------------------------------
(* Query cache.  queries maps the key of each cached query to its data and *)
(* to whether it was invalidated since the data was fetched.               *)

\* QUERY_KEYS of the account hooks and of the budget hooks
AccountsKey(budgetId) == <<"accounts", budgetId>>
AccountKey(accountId) == <<"account", accountId>>
CategoriesKey == <<"categories">>
TransactionsKey == <<"transactions">>
TransfersKey == <<"transfers">>
SummaryKey == <<"summary">>
UnassignedBalanceKey == <<"unassigned-balance">>

\* a query filter { queryKey } matches the keys that begin with queryKey
MatchesKey(queryKey, key) ==
    Len(queryKey) <= Len(key) /\ SubSeq(key, 1, Len(queryKey)) = queryKey

invalidateQueries(q, queryKey) ==
    [key \in DOMAIN q |->
        IF MatchesKey(queryKey, key)
        THEN [q[key] EXCEPT !.isInvalidated = TRUE]
        ELSE q[key]]

removeQueries(q, queryKey) ==
    [key \in {k \in DOMAIN q : ~MatchesKey(queryKey, k)} |-> q[key]]

setQueryData(q, key, data) ==
    Put(q, key, [data |-> data, isInvalidated |-> FALSE])

\* the queryFn of each hook; the account hooks read through an
\* AccountStorage under the password of usePassword
QueryFn(key, st, svc) ==
    IF key[1] = "accounts"
    THEN [a \in getAccounts(st, DEFAULT_PASSWORD, key[2]) |-> st.accounts[a]]
    ELSE IF key[1] = "account"
    THEN [a \in {key[2]} \cap {x \in DOMAIN st.accounts :
                                 getAccountExists(st, DEFAULT_PASSWORD, x)} |->
             st.accounts[a]]
    ELSE IF key = CategoriesKey THEN st.categories
    ELSE IF key = TransactionsKey THEN st.transactions
    ELSE IF key = TransfersKey THEN st.transfers
    ELSE IF key = SummaryKey THEN getBudgetSummary(st, svc)
    ELSE getUnassignedBalance(st, svc)

\* useCreateAccount.onSuccess
CreateAccountSuccess(q, id, account) ==
    setQueryData(invalidateQueries(q, AccountsKey(account.budgetId)),
                 AccountKey(id), (id :> account))

\* useUpdateAccount.onSuccess
UpdateAccountSuccess(q, id, account) ==
    invalidateQueries(setQueryData(q, AccountKey(id), (id :> account)),
                      AccountsKey(account.budgetId))

\* useDeleteAccount.onSuccess
DeleteAccountSuccess(q, id, budgetId) ==
    invalidateQueries(removeQueries(q, AccountKey(id)), AccountsKey(budgetId))

\* useTransferBetweenAccounts.onSuccess: each account is looked up in the
\* cached list of QUERY_KEYS.accounts('') and its queries are invalidated
\* when it is found there
InvalidateFound(q, accountId) ==
    IF /\ AccountsKey("") \in DOMAIN q
       /\ accountId \in DOMAIN q[AccountsKey("")].data
    THEN invalidateQueries(
             invalidateQueries(q,
                 AccountsKey(q[AccountsKey("")].data[accountId].budgetId)),
             AccountKey(accountId))
    ELSE q

TransferSuccess(q, variables) ==
    invalidateQueries(
        invalidateQueries(
            InvalidateFound(InvalidateFound(q, variables.fromAccountId),
                            variables.toAccountId),
            TransactionsKey),
        SummaryKey)

\* onSuccess of the create, update and delete transaction mutations
TransactionSuccess(q) ==
    invalidateQueries(invalidateQueries(invalidateQueries(invalidateQueries(
        invalidateQueries(q, TransactionsKey), CategoriesKey), SummaryKey),
        UnassignedBalanceKey), <<"accounts">>)

\* onSuccess of the create and delete transfer mutations
CategoryTransferSuccess(q) ==
    invalidateQueries(invalidateQueries(invalidateQueries(invalidateQueries(
        invalidateQueries(q, TransfersKey), CategoriesKey), SummaryKey),
        UnassignedBalanceKey), TransactionsKey)

\* onSuccess of the create, update and delete category mutations
CategorySuccess(q) ==
    invalidateQueries(invalidateQueries(q, CategoriesKey), SummaryKey)

\* a mutation: the storage call, then onSuccess when it did not throw
Mutation(op, input, r, success) ==
    /\ Stored(op, input, r)
    /\ queries' = IF r.error = OK THEN success ELSE queries

\* useQuery: the queryFn runs when the key holds no data or was invalidated
UseQuery(key) ==
    /\ key \in DOMAIN queries => queries[key].isInvalidated
    /\ queries' = setQueryData(queries, key,
                               QueryFn(key, Store, encryptionPassword))
    /\ last' = [op |-> "useQuery", input |-> [key |-> key], error |-> OK,
                id |-> 0]
    /\ mark' = NoMark
    /\ UNCHANGED <<budgets, accounts, categories, transactions, transfers,
                   encryptionPassword, inflight>>

\* updateAccount: the stored account with the updates laid over it
updateAccount(st, pw, id, updates) ==
    [st EXCEPT !.accounts[id] =
        [updates @@ st.accounts[id] EXCEPT !.password = pw]]

UseCreateAccount(id, budgetId, data) ==
    /\ id \notin DOMAIN accounts
    /\ LET st == createAccount(Store, DEFAULT_PASSWORD, id, budgetId, data)
       IN  Mutation("createAccount", [id |-> id, data |-> data],
                    Result(st, OK, 0),
                    CreateAccountSuccess(queries, id, st.accounts[id]))

UseUpdateAccount(id, updates) ==
    IF getAccountExists(Store, DEFAULT_PASSWORD, id)
    THEN LET st == updateAccount(Store, DEFAULT_PASSWORD, id, updates)
         IN  Mutation("updateAccount", [id |-> id, updates |-> updates],
                      Result(st, OK, 0),
                      UpdateAccountSuccess(queries, id, st.accounts[id]))
    ELSE Mutation("updateAccount", [id |-> id, updates |-> updates],
                  Result(Store, "Account not found", 0), queries)

UseDeleteAccount(id) ==
    IF getAccountExists(Store, DEFAULT_PASSWORD, id)
    THEN Mutation("deleteAccount", [id |-> id],
                  Result(deleteAccount(Store, id), OK, 0),
                  DeleteAccountSuccess(queries, id, accounts[id].budgetId))
    ELSE Mutation("deleteAccount", [id |-> id],
                  Result(Store, "Account not found", 0), queries)

UseTransferBetweenAccounts(data, order, f) ==
    Mutation("transferBetweenAccounts", data @@ [fault |-> f],
             transferBetweenAccounts(Store, DEFAULT_PASSWORD, encryptionPassword,
                                     data, order, f),
             TransferSuccess(queries, data))

UseCreateTransaction(input, f) ==
    Mutation("createTransaction", input @@ [fault |-> f],
             createTransaction(Store, encryptionPassword, input, f),
             TransactionSuccess(queries))

UseUpdateTransaction(id, updates, f) ==
    Mutation("updateTransaction", [id |-> id, updates |-> updates, fault |-> f],
             updateTransaction(Store, encryptionPassword, id, updates, f),
             TransactionSuccess(queries))

UseDeleteTransaction(id, f) ==
    Mutation("deleteTransaction", [id |-> id, fault |-> f],
             deleteTransaction(Store, encryptionPassword, id, f),
             TransactionSuccess(queries))

UseCreateTransfer(input, order, f) ==
    Mutation("createTransfer", input @@ [fault |-> f],
             createTransfer(Store, encryptionPassword, input, order, f),
             CategoryTransferSuccess(queries))

UseDeleteTransfer(id, order, f) ==
    \E pick \in FindPicks(deleteTransferMatches(Store, id)) :
        Mutation("deleteTransfer", [id |-> id, fault |-> f],
                 deleteTransfer(Store, encryptionPassword, id, pick, order, f),
                 CategoryTransferSuccess(queries))

UseCreateCategory(id) ==
    /\ id \notin DOMAIN categories
    /\ Mutation("createCategory", [id |-> id],
                Result(createCategory(Store, id, id), OK, 0),
                CategorySuccess(queries))

UseDeleteCategory(id) ==
    Mutation("deleteCategory", [id |-> id],
             Result(deleteCategory(Store, id), OK, 0), CategorySuccess(queries))

-----------------------------------------------------------------------------
(* Inputs *)

TagSets == {{}, {TRANSFER_TAG}, {ACCOUNT_TRANSFER_TAG}}

Orders == {"fromFirst", "toFirst"}

NoFault == {}

TransactionInputs ==
    [amount : {-1, 2}, categoryId : {NULL, "c1"}, accountId : {"a1"},
     tags : TagSets, description : {"memo"}]

TransactionUpdates ==
    [amount : {-1, 2}] \cup [categoryId : {NULL, "c1"}] \cup [tags : TagSets]

\* transfers between two distinct endpoints; the description is left
\* blank, or typed as the text deleteTransfer looks for
TransferInputs ==
    {t \in [fromCategoryId : {UNASSIGNED_CATEGORY_ID} \cup CategoryIds,
            toCategoryId : {UNASSIGNED_CATEGORY_ID} \cup CategoryIds,
            amount : {1, 2}, description : {"", "Transfer to c1"}] :
        /\ t.fromCategoryId # t.toCategoryId
        /\ t.description # "" =>
              t.fromCategoryId = UNASSIGNED_CATEGORY_ID /\ t.toCategoryId = "c1"}

\* the order of two parallel writes shows only when they hit one record
OrdersOf(from, to) == IF from = to THEN Orders ELSE {"fromFirst"}

AccountInputs == [initialBalance : {0, 2}, isOnBudget : {TRUE}]

AccountTransferInputs ==
    [fromAccountId : AccountIds, toAccountId : AccountIds,
     amount : {1, 2}, description : {""}]


Init ==
    /\ budgets = <<>>
    /\ accounts = <<>>
    /\ categories = <<>>
    /\ transactions = <<>>
    /\ transfers = <<>>
    /\ encryptionPassword = NULL
    /\ last = [op |-> "init", input |-> <<>>, error |-> OK, id |-> 0]
    /\ mark = NoMark
    /\ inflight = NoneInFlight
    /\ queries = <<>>

\* ids are random UUIDs: taking them in a fixed order loses no behaviour
InOrder(id, ids, first, second) == id = second => first \in ids

SetupBudget ==
    \E b \in BudgetIds, pos \in 1..(Len(budgets) + 1) : CreateBudget(b, pos)

SetupCategory(ids) ==
    \E c \in ids : InOrder(c, DOMAIN categories, "c1", "c2") /\ CreateCategory(c)

SetupAccount(ids) ==
    \E a \in ids, b \in BudgetIds, d \in AccountInputs :
        /\ InOrder(a, DOMAIN accounts, "a1", "a2")
        /\ CreateAccount(DEFAULT_PASSWORD, a, b, d)

\* the store has room for k more records under the bound max
Room(store, k, max) == Cardinality(DOMAIN store) + k <= max

\* createTransfer writes a transaction only when UNASSIGNED is an endpoint
SynthesizedCount(t) ==
    IF UNASSIGNED_CATEGORY_ID \in {t.fromCategoryId, t.toCategoryId} THEN 1 ELSE 0

(* The transaction ledger: every call succeeds *)
Next ==
    \/ SetupCategory({"c1"})
    \/ SetupAccount({"a1"})
    \/ \E t \in TransactionInputs :
          Room(transactions, 1, MaxLedger) /\ CreateTransaction(t, NoFault)
    \/ \E id \in DOMAIN transactions, u \in TransactionUpdates :
          UpdateTransaction(id, u, NoFault)
    \/ \E id \in DOMAIN transactions : DeleteTransaction(id, NoFault)

Spec == Init /\ [][Next]_vars

(* Category transfers *)
NextTransfers ==
    \/ SetupBudget
    \/ SetupCategory(CategoryIds)
    \/ SetupAccount({"a1"})
    \/ \E t \in TransferInputs :
          \E o \in Orders :
             /\ Room(transfers, 1, MaxTransfers)
             /\ Room(transactions, SynthesizedCount(t), MaxTransfers)
             /\ CreateTransfer(t, o, NoFault)
    \/ \E id \in DOMAIN transfers :
          \E o \in OrdersOf(transfers[id].fromCategoryId, transfers[id].toCategoryId) :
             DeleteTransfer(id, o, NoFault)
    \/ \E id \in DOMAIN transactions : DeleteTransaction(id, NoFault)

SpecTransfers == Init /\ [][NextTransfers]_vars

(* Money sent from UNASSIGNED to a category and back *)
ReturnInputs ==
    {t \in [fromCategoryId : {UNASSIGNED_CATEGORY_ID, "c1"},
            toCategoryId : {UNASSIGNED_CATEGORY_ID, "c1"},
            amount : {1, 2}, description : {""}] :
        t.fromCategoryId # t.toCategoryId}

NextReturns ==
    \/ SetupBudget
    \/ SetupCategory({"c1"})
    \/ SetupAccount({"a1"})
    \/ \E t \in ReturnInputs :
          /\ Room(transfers, 1, MaxReturns)
          /\ Room(transactions, 1, MaxReturns)
          /\ CreateTransfer(t, "fromFirst", NoFault)
    \/ \E id \in DOMAIN transfers : DeleteTransfer(id, "fromFirst", NoFault)

SpecReturns == Init /\ [][NextReturns]_vars

(* Account transfers, with rejected writes *)
AccountTransferFaults ==
    {{}, {"outgoing"}, {"incoming"}, {"outgoing", "rollback-from"},
     {"incoming", "rollback-to"}}

\* a call that ends at one of its checks writes nothing, rejected or not
AccountTransferFaultsOf(d) ==
    IF /\ d.fromAccountId \in DOMAIN accounts
       /\ d.toAccountId \in DOMAIN accounts
       /\ ~InsufficientFunds(accounts[d.fromAccountId].balance, d.amount)
    THEN AccountTransferFaults
    ELSE {NoFault}

NextAccounts ==
    \/ SetupAccount(AccountIds)
    \/ \E d \in AccountTransferInputs :
          \E f \in AccountTransferFaultsOf(d),
             o \in OrdersOf(d.fromAccountId, d.toAccountId) :
             /\ Room(transactions, 2, MaxLegs)
             /\ TransferBetweenAccounts(DEFAULT_PASSWORD, d, o, f)
    \/ \E id \in DOMAIN transactions : DeleteTransaction(id, NoFault)

SpecAccounts == Init /\ [][NextAccounts]_vars

(* Reconciliation after drift: calls whose record write is rejected leave  *)
(* balance writes without their record, or a record without its balance   *)
ReconcileTransactionInputs ==
    [amount : {-1, 2}, categoryId : {"c1"}, accountId : {"a1"},
     tags : TagSets, description : {"memo"}]

ReconcileTransferInputs ==
    {[fromCategoryId |-> e[1], toCategoryId |-> e[2], amount |-> 1,
      description |-> ""] :
        e \in {<<UNASSIGNED_CATEGORY_ID, "c1">>, <<"c1", "c2">>,
               <<"c1", UNASSIGNED_CATEGORY_ID>>}}

RecordFaults == {{}, {"record"}}

NextReconcile ==
    \/ SetupCategory(CategoryIds)
    \/ \E t \in ReconcileTransactionInputs, f \in RecordFaults :
          Room(transactions, 1, MaxDrift) /\ CreateTransaction(t, f)
    \/ \E id \in DOMAIN transactions : DeleteTransaction(id, NoFault)
    \/ \E t \in ReconcileTransferInputs, f \in RecordFaults :
          \E o \in OrdersOf(t.fromCategoryId, t.toCategoryId) :
             /\ Room(transfers, 1, MaxDrift)
             /\ Room(transactions, SynthesizedCount(t), MaxDrift)
             /\ CreateTransfer(t, o, f)
    \/ \E id \in DOMAIN transfers :
          \E o \in OrdersOf(transfers[id].fromCategoryId, transfers[id].toCategoryId) :
             DeleteTransfer(id, o, NoFault)
    \/ RecalculateCategoryBalances(DOMAIN categories)

SpecReconcile == Init /\ [][NextReconcile]_vars

(* Updates that move a transaction between the categories and accounts of  *)
(* a budget that is set up                                                 *)
MoveInputs ==
    [amount : {-1, 2}, categoryId : {"c1"}, accountId : {"a1"},
     tags : {{}}, description : {"memo"}]

MoveUpdates ==
    [amount : {-1, 2}] \cup [categoryId : CategoryIds] \cup [accountId : AccountIds]
      \cup [categoryId : {"c2"}, amount : {-1, 2}]
      \cup [accountId : {"a2"}, amount : {-1, 2}]

EmptyAccount == [initialBalance |-> 0, isOnBudget |-> TRUE]

NextMoves ==
    \/ SetupCategory(CategoryIds)
    \/ \E a \in AccountIds, b \in BudgetIds :
          /\ InOrder(a, DOMAIN accounts, "a1", "a2")
          /\ CreateAccount(DEFAULT_PASSWORD, a, b, EmptyAccount)
    \/ \E t \in MoveInputs :
          /\ DOMAIN categories = CategoryIds /\ DOMAIN accounts = AccountIds
          /\ Room(transactions, 1, MaxMoves)
          /\ CreateTransaction(t, NoFault)
    \/ \E id \in DOMAIN transactions, u \in MoveUpdates :
          UpdateTransaction(id, u, NoFault)
    \/ \E id \in DOMAIN transactions : DeleteTransaction(id, NoFault)

SpecMoves == Init /\ [][NextMoves]_vars

(* Calls that name records that are not stored *)
AbsentIds == 1..(MaxAbsent + 1)

AbsentTransferInputs ==
    {[fromCategoryId |-> e[1], toCategoryId |-> e[2], amount |-> 1,
      description |-> ""] :
        e \in {<<UNASSIGNED_CATEGORY_ID, "c1">>, <<"c1", UNASSIGNED_CATEGORY_ID>>,
               <<"c1", "c2">>}}

\* a2 is never stored
AbsentAccountTransferInputs ==
    {d \in [fromAccountId : AccountIds, toAccountId : AccountIds,
            amount : {1}, description : {""}] :
        d.fromAccountId # d.toAccountId}

FundedAccount == [initialBalance |-> 2, isOnBudget |-> TRUE]

NextAbsent ==
    \/ SetupCategory(CategoryIds)
    \/ \E c \in DOMAIN categories : DeleteCategory(c)
    \/ \E b \in BudgetIds :
          "a1" \notin DOMAIN accounts
              /\ CreateAccount(DEFAULT_PASSWORD, "a1", b, FundedAccount)
    \/ \E t \in AbsentTransferInputs :
          /\ Room(transfers, 1, MaxAbsent)
          /\ Room(transactions, SynthesizedCount(t), MaxAbsent)
          /\ CreateTransfer(t, "fromFirst", NoFault)
    \/ \E id \in AbsentIds : DeleteTransfer(id, "fromFirst", NoFault)
    \/ \E id \in AbsentIds, u \in [amount : {2}] : UpdateTransaction(id, u, NoFault)
    \/ \E id \in AbsentIds : DeleteTransaction(id, NoFault)
    \/ \E d \in AbsentAccountTransferInputs :
          TransferBetweenAccounts(DEFAULT_PASSWORD, d, "fromFirst", NoFault)

SpecAbsent == Init /\ [][NextAbsent]_vars

(* Transactions of an account whose balance writes may be rejected *)
PlainInputs ==
    [amount : {-1, 2}, categoryId : {NULL}, accountId : {"a1"},
     tags : {{}}, description : {"memo"}]

AccountWriteFaults == {{}, {"account"}}

AccountUpdateFaults == {{}, {"accountOld"}, {"accountNew"}}

NextRejected ==
    \/ SetupBudget
    \/ SetupAccount({"a1"})
    \/ \E t \in PlainInputs, f \in AccountWriteFaults :
          Room(transactions, 1, MaxLedger) /\ CreateTransaction(t, f)
    \/ \E id \in DOMAIN transactions, u \in [amount : {-1, 2}],
          f \in AccountUpdateFaults : UpdateTransaction(id, u, f)
    \/ \E id \in DOMAIN transactions, f \in AccountWriteFaults :
          DeleteTransaction(id, f)
    \/ \E done \in SUBSET DOMAIN accounts : RecalculateAccountBalances(done)

SpecRejected == Init /\ [][NextRejected]_vars

(* Account transfers in a budget with a category that holds money *)
CategoryInputs ==
    [amount : {2}, categoryId : {"c1"}, accountId : {"a1"},
     tags : {{}}, description : {"memo"}]

NextFrame ==
    \/ SetupBudget
    \/ SetupCategory({"c1"})
    \/ SetupAccount(AccountIds)
    \/ \E t \in CategoryInputs :
          Room(transactions, 1, MaxLegs + 1) /\ CreateTransaction(t, NoFault)
    \/ \E d \in AccountTransferInputs :
          \E f \in AccountTransferFaultsOf(d),
             o \in OrdersOf(d.fromAccountId, d.toAccountId) :
             /\ Room(transactions, 2, MaxLegs + 1)
             /\ TransferBetweenAccounts(DEFAULT_PASSWORD, d, o, f)

SpecFrame == Init /\ [][NextFrame]_vars

(* Transactions entered against stored accounts, category transfers, and
   accounts deleted afterwards *)
OwnedInputs ==
    [amount : {-1, 2}, categoryId : {NULL, "c1"}, accountId : AccountIds,
     tags : {{}}, description : {"memo"}]

\* an account id is a random UUID and is never given out twice: accounts
\* are opened before the first entry and deleted after it
NextOwners ==
    \/ SetupCategory({"c1"})
    \/ transactions = <<>> /\ SetupAccount(AccountIds)
    \/ \E t \in OwnedInputs :
          /\ t.accountId \in DOMAIN accounts
          /\ Room(transactions, 1, MaxLedger + 1)
          /\ CreateTransaction(t, NoFault)
    \/ \E t \in ReturnInputs :
          /\ Room(transfers, 1, MaxTransfers)
          /\ Room(transactions, SynthesizedCount(t), MaxLedger + 1)
          /\ CreateTransfer(t, "fromFirst", NoFault)
    \/ \E a \in DOMAIN accounts : transactions # <<>> /\ DeleteAccount(a)

SpecOwners == Init /\ [][NextOwners]_vars

(* A service initialized with or without a password, then written to *)
Passwords == {NULL, "secret"}

NextEnvelope ==
    \/ \E password \in Passwords : Initialize(password)
    \/ SetupBudget
    \/ SetupCategory({"c1"})
    \/ SetupAccount({"a1"})
    \/ \E t \in MoveInputs :
          Room(transactions, 1, MaxLedger + 1) /\ CreateTransaction(t, NoFault)
    \/ \E id \in DOMAIN transactions, u \in [amount : {-1, 2}] :
          UpdateTransaction(id, u, NoFault)
    \/ \E t \in ReturnInputs :
          /\ Room(transfers, 1, MaxTransfers)
          /\ Room(transactions, SynthesizedCount(t), MaxLedger + 1)
          /\ CreateTransfer(t, "fromFirst", NoFault)

SpecEnvelope == Init /\ [][NextEnvelope]_vars

(* Snapshots taken of a store that holds records of every kind *)
NextExport ==
    \/ SetupBudget
    \/ SetupCategory({"c1"})
    \/ SetupAccount({"a1"})
    \/ \E t \in MoveInputs :
          Room(transactions, 1, MaxLedger + 1) /\ CreateTransaction(t, NoFault)
    \/ \E t \in ReturnInputs :
          /\ Room(transfers, 1, MaxTransfers)
          /\ Room(transactions, SynthesizedCount(t), MaxLedger + 1)
          /\ CreateTransfer(t, "fromFirst", NoFault)
    \/ ExportData

SpecExport == Init /\ [][NextExport]_vars

(* Legs of account transfers edited afterwards; the transfer dialog offers
   no account as its own destination *)
LegUpdates == [amount : {-2, -1, 1, 2}] \cup [accountId : AccountIds]

NextLegs ==
    \/ SetupAccount(AccountIds)
    \/ \E d \in AccountTransferInputs :
          /\ d.fromAccountId # d.toAccountId
          /\ Room(transactions, 2, MaxLegs)
          /\ TransferBetweenAccounts(DEFAULT_PASSWORD, d, "fromFirst", NoFault)
    \/ \E id \in DOMAIN transactions, u \in LegUpdates :
          UpdateTransaction(id, u, NoFault)

SpecLegs == Init /\ [][NextLegs]_vars

(* Transfers out of UNASSIGNED that carry the text deleteTransfer looks
   for, next to a transaction the user entered with the same text *)
NamedTransferInputs ==
    [fromCategoryId : {UNASSIGNED_CATEGORY_ID}, toCategoryId : {"c1"},
     amount : {1, 2}, description : {"", "Transfer to c1"}]

NamedInputs ==
    [amount : {-1}, categoryId : {NULL, "c1"}, accountId : {NULL},
     tags : {{TRANSFER_TAG}}, description : {"Transfer to c1"}]

NextNamed ==
    \/ SetupCategory({"c1"})
    \/ \E t \in NamedInputs :
          /\ "c1" \in DOMAIN categories
          /\ Room(transactions, 1, MaxTransfers + 1)
          /\ CreateTransaction(t, NoFault)
    \/ \E t \in NamedTransferInputs :
          /\ Room(transfers, 1, MaxTransfers + 1)
          /\ Room(transactions, 1, MaxTransfers + 1)
          /\ CreateTransfer(t, "fromFirst", NoFault)
    \/ \E id \in DOMAIN transfers : DeleteTransfer(id, "fromFirst", NoFault)

SpecNamed == Init /\ [][NextNamed]_vars

(* Category transfers with one of their writes rejected *)
TransferFaults ==
    {{}, {"transaction"}, {"categoryFrom"}, {"categoryTo"}, {"record"}}

NextOrdered ==
    \/ SetupCategory(CategoryIds)
    \/ \E t \in ReconcileTransferInputs, f \in TransferFaults, o \in Orders :
          /\ t.fromCategoryId \in DOMAIN categories \cup {UNASSIGNED_CATEGORY_ID}
          /\ t.toCategoryId \in DOMAIN categories \cup {UNASSIGNED_CATEGORY_ID}
          /\ Room(transfers, 1, MaxTransfers)
          /\ Room(transactions, SynthesizedCount(t), MaxTransfers)
          /\ CreateTransfer(t, o, f)

SpecOrdered == Init /\ [][NextOrdered]_vars

(* Transactions entered and edited with a category write or the record
   write rejected *)
CreateFaults == {{}, {"category"}, {"record"}}

UpdateFaults == {{}, {"categoryOld"}, {"categoryNew"}}

StepUpdates == [amount : {-1, 2}] \cup [categoryId : CategoryIds]

NextSteps ==
    \/ SetupCategory(CategoryIds)
    \/ CreateAccount(DEFAULT_PASSWORD, "a1", "b1", EmptyAccount)
    \/ \E t \in MoveInputs, f \in CreateFaults :
          /\ DOMAIN categories = CategoryIds /\ "a1" \in DOMAIN accounts
          /\ Room(transactions, 1, MaxLedger)
          /\ CreateTransaction(t, f)
    \/ \E id \in DOMAIN transactions, u \in StepUpdates, f \in UpdateFaults :
          UpdateTransaction(id, u, f)

SpecSteps == Init /\ [][NextSteps]_vars

(* Calls of createTransaction on one category and one account, one after
   the other or overlapping *)
InFlightInputs ==
    [amount : {1, 2}, categoryId : {"c1"}, accountId : {"a1"},
     tags : {{}}, description : {"memo"}]

NextInFlight ==
    \/ SetupCategory({"c1"})
    \/ CreateAccount(DEFAULT_PASSWORD, "a1", "b1", EmptyAccount)
    \/ \E p \in Callers, t \in InFlightInputs :
          /\ "c1" \in DOMAIN categories /\ "a1" \in DOMAIN accounts
          /\ \A q \in 1..(p - 1) : inflight.calls[q] # Idle
          /\ BeginCreateTransaction(p, t)
    \/ \E p \in Callers : ReadCategory(p)
    \/ \E p \in Callers : WriteCategory(p)
    \/ \E p \in Callers : ReadAccount(p)
    \/ \E p \in Callers : WriteAccount(p)
    \/ \E p \in Callers : AddTransaction(p)

SpecInFlight == Init /\ [][NextInFlight]_vars

(* Transfers from a category or an account to itself: the storage methods
   take them, the forms do not offer them *)
SelfTransferInputs ==
    [fromCategoryId : {"c1"}, toCategoryId : {"c1"},
     amount : {1, 2}, description : {""}]

SelfAccountTransferInputs ==
    [fromAccountId : {"a1"}, toAccountId : {"a1"},
     amount : {1, 2}, description : {""}]

NextSelf ==
    \/ SetupCategory({"c1"})
    \/ SetupAccount({"a1"})
    \/ \E t \in SelfTransferInputs, o \in Orders :
          Room(transfers, 1, MaxTransfers + 1) /\ CreateTransfer(t, o, NoFault)
    \/ \E d \in SelfAccountTransferInputs, o \in Orders :
          /\ Room(transactions, 2, MaxLegs)
          /\ TransferBetweenAccounts(DEFAULT_PASSWORD, d, o, NoFault)

SpecSelf == Init /\ [][NextSelf]_vars

(* Account transfers of any integer amount between two accounts *)
SignedAccountTransferInputs ==
    {d \in [fromAccountId : AccountIds, toAccountId : AccountIds,
            amount : {-2, -1, 0, 1, 2}, description : {""}] :
        d.fromAccountId # d.toAccountId}

NextSigned ==
    \/ SetupAccount(AccountIds)
    \/ \E d \in SignedAccountTransferInputs :
          /\ Room(transactions, 2, MaxLegs + 2)
          /\ TransferBetweenAccounts(DEFAULT_PASSWORD, d, "fromFirst", NoFault)

SpecSigned == Init /\ [][NextSigned]_vars

(* Balances recomputed from the log, before and after the data is cleared *)
LoggedInputs ==
    [amount : {-1, 2}, categoryId : {NULL}, accountId : {"a1"},
     tags : TagSets, description : {"memo"}]

NextRecalculate ==
    \/ SetupBudget
    \/ \E d \in AccountInputs :
          budgets # <<>> /\ CreateAccount(DEFAULT_PASSWORD, "a1", "b1", d)
    \/ \E t \in LoggedInputs :
          /\ "a1" \in DOMAIN accounts
          /\ Room(transactions, 1, MaxLedger + 1)
          /\ CreateTransaction(t, NoFault)
    \/ \E id \in DOMAIN transactions : DeleteTransaction(id, NoFault)
    \/ accounts # <<>> /\ ClearAllData
    \/ RecalculateAccountBalances(DOMAIN accounts)

SpecRecalculate == Init /\ [][NextRecalculate]_vars

(* The derived reads of a budget that is filled and cleared *)
NextSummary ==
    \/ SetupBudget
    \/ SetupCategory({"c1"})
    \/ \E d \in AccountInputs :
          budgets # <<>> /\ CreateAccount(DEFAULT_PASSWORD, "a1", "b1", d)
    \/ \E t \in TransactionInputs :
          /\ "a1" \in DOMAIN accounts
          /\ Room(transactions, 1, MaxLedger)
          /\ CreateTransaction(t, NoFault)
    \/ ClearAllData
    \/ GetUnassignedBalance
    \/ GetBudgetSummary

SpecSummary == Init /\ [][NextSummary]_vars

(* Account transfers between two accounts whose leg writes and rollback    *)
(* writes may be rejected                                                  *)
NextRollback ==
    \/ SetupAccount(AccountIds)
    \/ \E d \in AccountTransferInputs :
          \E f \in AccountTransferFaultsOf(d) :
             /\ d.fromAccountId # d.toAccountId
             /\ Room(transactions, 2, MaxLegs)
             /\ TransferBetweenAccounts(DEFAULT_PASSWORD, d, "fromFirst", f)

SpecRollback == Init /\ [][NextRollback]_vars

(* Categories deleted while transactions and transfers still name them *)
FiledInputs ==
    [amount : {-1, 2}, categoryId : CategoryIds, accountId : {"a1"},
     tags : {{}}, description : {"memo"}]

\* a category id is a random UUID and is never given out twice: categories
\* are created before the first entry and deleted after it
NextDeleteCategory ==
    \/ transactions = <<>> /\ transfers = <<>> /\ SetupCategory(CategoryIds)
    \/ transactions = <<>> /\ SetupAccount({"a1"})
    \/ \E t \in FiledInputs :
          /\ Room(transactions, 1, MaxLedger + 1)
          /\ CreateTransaction(t, NoFault)
    \/ \E t \in ReconcileTransferInputs :
          /\ Room(transfers, 1, MaxTransfers)
          /\ Room(transactions, SynthesizedCount(t), MaxLedger + 1)
          /\ CreateTransfer(t, "fromFirst", NoFault)
    \/ \E c \in DOMAIN categories :
          (transactions # <<>> \/ transfers # <<>>) /\ DeleteCategory(c)

SpecDeleteCategory == Init /\ [][NextDeleteCategory]_vars

(* Account transfers made through the hook while the account queries of   *)
(* the accounts page are cached                                            *)
AccountQueryKeys ==
    {AccountsKey(b) : b \in BudgetIds} \cup {AccountKey(a) : a \in AccountIds}

NextInvalidate ==
    \/ SetupBudget
    \/ \E a \in AccountIds, d \in AccountInputs :
          /\ budgets # <<>>
          /\ InOrder(a, DOMAIN accounts, "a1", "a2")
          /\ UseCreateAccount(a, "b1", d)
    \/ \E key \in AccountQueryKeys : UseQuery(key)
    \/ \E d \in AccountTransferInputs :
          /\ d.fromAccountId # d.toAccountId
          /\ Room(transactions, 2, MaxLegs)
          /\ UseTransferBetweenAccounts(d, "fromFirst", NoFault)

SpecInvalidate == Init /\ [][NextInvalidate]_vars

(* Every mutation of the hooks, made while the unassigned balance is       *)
(* cached.  An id is a random UUID: one is given out again only when no    *)
(* stored record names it, which is as good as a new one.                  *)
CachedInputs ==
    [amount : {2}, categoryId : {NULL, "c1"}, accountId : {"a1"},
     tags : {{}}, description : {"memo"}]

CachedAccountTransferInputs ==
    {d \in [fromAccountId : AccountIds, toAccountId : AccountIds,
            amount : {1}, description : {""}] :
        d.fromAccountId # d.toAccountId}

Unnamed(id) ==
    /\ \A t \in DOMAIN transactions :
          id \notin {transactions[t].accountId, transactions[t].categoryId}
    /\ \A t \in DOMAIN transfers :
          id \notin {transfers[t].fromCategoryId, transfers[t].toCategoryId}

NextCached ==
    \/ SetupBudget
    \/ Unnamed("c1") /\ UseCreateCategory("c1")
    \/ \E a \in AccountIds :
          /\ budgets # <<>> /\ Unnamed(a)
          /\ InOrder(a, DOMAIN accounts, "a1", "a2")
          /\ UseCreateAccount(a, "b1", FundedAccount)
    \/ \E a \in DOMAIN accounts :
          UseUpdateAccount(a, [isClosed |-> ~accounts[a].isClosed])
    \/ \E a \in DOMAIN accounts : UseDeleteAccount(a)
    \/ \E d \in CachedAccountTransferInputs :
          /\ Room(transactions, 2, MaxLegs)
          /\ UseTransferBetweenAccounts(d, "fromFirst", NoFault)
    \/ \E t \in CachedInputs :
          Room(transactions, 1, MaxLedger) /\ UseCreateTransaction(t, NoFault)
    \/ \E id \in DOMAIN transactions, u \in [amount : {-1}] :
          UseUpdateTransaction(id, u, NoFault)
    \/ \E id \in DOMAIN transactions : UseDeleteTransaction(id, NoFault)
    \/ \E t \in ReturnInputs :
          /\ t.amount = 1
          /\ Room(transfers, 1, MaxTransfers)
          /\ Room(transactions, 1, MaxLedger)
          /\ UseCreateTransfer(t, "fromFirst", NoFault)
    \/ \E id \in DOMAIN transfers : UseDeleteTransfer(id, "fromFirst", NoFault)
    \/ \E c \in DOMAIN categories : UseDeleteCategory(c)
    \/ UseQuery(UnassignedBalanceKey)

SpecCached == Init /\ [][NextCached]_vars

-----------------------------------------------------------------------------
(* The balances the log implies, written from the reconciliation rules of  *)
(* the specification                                                       *)

LogCategoryAmount(c) ==
    SumOver(Amounts(transfers), {t \in DOMAIN transfers : transfers[t].toCategoryId = c})
      - SumOver(Amounts(transfers),
                {t \in DOMAIN transfers : transfers[t].fromCategoryId = c})
      + SumOver(Amounts(transactions),
                {t \in DOMAIN transactions :
                    /\ transactions[t].categoryId = c
                    /\ transactions[t].tags \cap {TRANSFER_TAG, ACCOUNT_TRANSFER_TAG} = {}})

LogAccountBalance(a) ==
    SumOver(Amounts(transactions),
            {t \in DOMAIN transactions :
                transactions[t].accountId = a /\ TRANSFER_TAG \notin transactions[t].tags})

CategoryAmounts(st) ==
    [c \in DOMAIN st.categories |-> st.categories[c].currentAmount]

AccountBalances(st) == [a \in DOMAIN st.accounts |-> st.accounts[a].balance]

Balances == <<CategoryAmounts(Store), AccountBalances(Store)>>

\* the objects a step hands to the stores: the records of after that
\* before does not hold
EntityStores == {"accounts", "categories", "transactions", "transfers"}

WrittenRecords(before, after) ==
    {Persisted("budgets", b, b) : b \in BudgetsOf(after) \ BudgetsOf(before)}
    \cup UNION {{Persisted(s, id, after[s][id]) :
                    id \in {i \in DOMAIN after[s] :
                              i \notin DOMAIN before[s]
                              \/ after[s][i] # before[s][i]}} :
                s \in EntityStores}

IsEncryptedData(x) == DOMAIN x = {"data", "iv", "salt"}

\* an encrypted envelope: nothing of the entity outside the cipher text
\* but the keys the store indexes by
IsEnvelope(w) ==
    \/ IsEncryptedData(w)
    \/ /\ DOMAIN w = {"id", "budgetId", "data"}
       /\ IsEncryptedData(w.data)

-----------------------------------------------------------------------------
(* Claims *)

\* C1: after successful create/update/delete of transactions (one at a
\* time) every category's currentAmount equals transfers in - transfers out
\* + its transactions tagged neither "transfer" nor "account-transfer".
C1_CategoryAmountEqualsLog ==
    \A c \in DOMAIN categories : categories[c].currentAmount = LogCategoryAmount(c)

\* C2: after successful createAccount (any initial balance) and transaction
\* calls every account's balance equals the sum of its transactions not
\* tagged "transfer".
C2_AccountBalanceEqualsLog ==
    \A a \in DOMAIN accounts : accounts[a].balance = LogAccountBalance(a)

\* C3 as stated: createTransaction(t) followed at once by deleteTransaction
\* of the created transaction restores every category and account balance,
\* for every tag set.
C3_CreateDeleteInverseAnyTags ==
    (mark.state = "undone" /\ mark.op = "createTransaction")
        => Balances = <<CategoryAmounts(mark.before), AccountBalances(mark.before)>>

\* C4: when recalculateCategoryBalances completes, from any reachable state
\* (drifted ones included), every category's currentAmount equals the value
\* the log implies.
C4_RecalculateRestoresLog ==
    (last.op = "recalculateCategoryBalances" /\ last.error = OK)
        => \A c \in DOMAIN categories :
              categories[c].currentAmount = LogCategoryAmount(c)

C4_Witness ==
    /\ last.op = "recalculateCategoryBalances" /\ last.error = OK
    /\ last.input.written # {}
    /\ transfers # <<>>

\* C5: a successful transferBetweenAccounts(from, to, a) with from # to
\* debits from by a, credits to by a and adds exactly two transactions:
\* -a on from and +a on to, both with categoryId null, both tagged
\* "account-transfer" and both with the same "transfer-<id>" tag.
C5_AccountTransferEffect ==
    [][(/\ last'.op = "transferBetweenAccounts" /\ last'.error = OK
        /\ last'.input.fromAccountId # last'.input.toAccountId)
       => LET d   == last'.input
              new == DOMAIN transactions' \ DOMAIN transactions
          IN  /\ accounts'[d.fromAccountId].balance
                    = accounts[d.fromAccountId].balance - d.amount
              /\ accounts'[d.toAccountId].balance
                    = accounts[d.toAccountId].balance + d.amount
              /\ Cardinality(new) = 2
              /\ \A t \in DOMAIN transactions :
                    t \in DOMAIN transactions' /\ transactions'[t] = transactions[t]
              /\ \E o \in new, i \in new :
                    /\ o # i
                    /\ transactions'[o].amount = 0 - d.amount
                    /\ transactions'[o].accountId = d.fromAccountId
                    /\ transactions'[i].amount = d.amount
                    /\ transactions'[i].accountId = d.toAccountId
                    /\ transactions'[o].categoryId = NULL
                    /\ transactions'[i].categoryId = NULL
                    /\ ACCOUNT_TRANSFER_TAG \in transactions'[o].tags
                    /\ ACCOUNT_TRANSFER_TAG \in transactions'[i].tags
                    /\ \E n \in 1..Cardinality(DOMAIN transactions') :
                          /\ CorrelationTag(n) \in transactions'[o].tags
                          /\ CorrelationTag(n) \in transactions'[i].tags]_vars

C5_Witness ==
    /\ last.op = "transferBetweenAccounts" /\ last.error = OK
    /\ last.input.fromAccountId # last.input.toAccountId
    /\ Cardinality(DOMAIN transactions) = 2

\* C6: transferBetweenAccounts with an amount above the source balance
\* fails with the insufficient-funds error and changes no account and no
\* transaction.
C6_InsufficientFundsRejected ==
    [][(/\ last'.op = "transferBetweenAccounts"
        /\ last'.input.fromAccountId \in DOMAIN accounts
        /\ last'.input.toAccountId \in DOMAIN accounts
        /\ last'.input.amount > accounts[last'.input.fromAccountId].balance)
       => /\ last'.error = "Insufficient funds in source account"
          /\ accounts' = accounts
          /\ transactions' = transactions]_vars

C6_Witness ==
    /\ last.op = "transferBetweenAccounts"
    /\ last.error = "Insufficient funds in source account"
    /\ last.input.amount > accounts[last.input.fromAccountId].balance

\* a call of transferBetweenAccounts in which creating a leg was rejected
\* after both balance writes went through
LegCreationFailed(call, accts) ==
    /\ call.op = "transferBetweenAccounts"
    /\ call.input.fromAccountId \in DOMAIN accts
    /\ call.input.toAccountId \in DOMAIN accts
    /\ call.input.amount <= accts[call.input.fromAccountId].balance
    /\ call.input.fault \cap {"balance-from", "balance-to"} = {}
    /\ call.input.fault \cap {"outgoing", "incoming"} # {}

C8_TransferCreateDeleteInverse ==
    (mark.state = "undone" /\ mark.op = "createTransfer")
        => /\ CategoryAmounts(Store) = CategoryAmounts(mark.before)
           /\ transactions = mark.before.transactions
           /\ transfers = mark.before.transfers

\* C9: a transfer of a from UNASSIGNED to C followed by a transfer of a
\* from C to UNASSIGNED leaves getUnassignedBalance and C.currentAmount
\* where they were.
C9_UnassignedConservation ==
    mark.state = "returned"
        => /\ getUnassignedBalance(Store, encryptionPassword) = mark.unassigned
           /\ categories[mark.input.toCategoryId].currentAmount
                = mark.before.categories[mark.input.toCategoryId].currentAmount

C9_Witness ==
    /\ mark.state = "returned"
    /\ Len(budgets) > 0
    /\ \E a \in DOMAIN accounts : accounts[a].balance > 0
    /\ Cardinality(DOMAIN transfers) = 2

\* C10: an updateTransaction that leaves categoryId, accountId and amount
\* as stored changes no category and no account balance.
C10_NoOpUpdateKeepsBalances ==
    [][(/\ last'.op = "updateTransaction" /\ last'.error = OK
        /\ last'.input.id \in DOMAIN transactions
        /\ transactions'[last'.input.id].categoryId
              = transactions[last'.input.id].categoryId
        /\ transactions'[last'.input.id].accountId
              = transactions[last'.input.id].accountId
        /\ transactions'[last'.input.id].amount
              = transactions[last'.input.id].amount)
       => Balances' = Balances]_vars

C10_Witness ==
    /\ last.op = "updateTransaction" /\ last.error = OK
    /\ DOMAIN last.input.updates = {"tags"}
    /\ last.input.updates.tags = {TRANSFER_TAG}
    /\ transactions[last.input.id].categoryId \in DOMAIN categories
    /\ transactions[last.input.id].accountId \in DOMAIN accounts
    /\ transactions[last.input.id].amount # 0

\* the change an update from old to new makes to the balance of record k,
\* by the field (categoryId or accountId) that ties a transaction to it
MoveDelta(old, new, field, k) ==
    (IF new[field] = k THEN new.amount ELSE 0)
      - (IF old[field] = k THEN old.amount ELSE 0)

\* C11: a successful updateTransaction of a transaction tagged neither
\* "transfer" nor "account-transfer" takes the old amount from the old
\* category and adds the new amount to the new one, and does the same,
\* independently, for the old and the new account; so a change of category
\* alone moves no account balance and a change of account alone moves no
\* category balance.
C11_UpdateMovesBalances ==
    [][(/\ last'.op = "updateTransaction" /\ last'.error = OK
        /\ last'.input.id \in DOMAIN transactions
        /\ transactions[last'.input.id].tags
              \cap {TRANSFER_TAG, ACCOUNT_TRANSFER_TAG} = {}
        /\ transactions'[last'.input.id].tags
              \cap {TRANSFER_TAG, ACCOUNT_TRANSFER_TAG} = {})
       => LET old == transactions[last'.input.id]
              new == transactions'[last'.input.id]
          IN  /\ \A c \in DOMAIN categories :
                    categories'[c].currentAmount = categories[c].currentAmount
                        + MoveDelta(old, new, "categoryId", c)
              /\ \A a \in DOMAIN accounts :
                    accounts'[a].balance = accounts[a].balance
                        + MoveDelta(old, new, "accountId", a)]_vars

\* an update that moved a transaction to the other account and changed its
\* amount, with both categories and both accounts stored
C11_Witness ==
    /\ last.op = "updateTransaction" /\ last.error = OK
    /\ DOMAIN last.input.updates = {"accountId", "amount"}
    /\ last.input.updates.accountId = "a2"
    /\ transactions[last.input.id].tags = {}
    /\ transactions[last.input.id].categoryId = "c1"
    /\ DOMAIN categories = CategoryIds
    /\ DOMAIN accounts = AccountIds
    /\ accounts["a2"].balance # 0

NotFoundErrors ==
    {"Transaction not found", "Transfer not found", "Source category not found",
     "Destination category not found", "Source account not found",
     "Destination account not found"}

\* C12: a createTransfer, deleteTransfer, updateTransaction,
\* deleteTransaction or transferBetweenAccounts that fails because a
\* transfer, transaction, category or account it names is not stored has
\* written nothing: every store is as it was before the call.
C12_NotFoundWritesNothing ==
    [][(/\ last'.op \in {"createTransfer", "deleteTransfer", "updateTransaction",
                        "deleteTransaction", "transferBetweenAccounts"}
        /\ last'.error \in NotFoundErrors)
       => Store' = Store]_vars

\* a deleteTransfer that found its transfer but not the category it paid
\* into, with a transaction in the store
C12_Witness ==
    /\ last.op = "deleteTransfer"
    /\ last.error = "Destination category not found"
    /\ transactions # <<>>
    /\ transfers # <<>>

\* the transaction is one whose amount the methods write to its account
WritesToAccount(t) == t.tags = {} /\ t.accountId \in DOMAIN accounts

\* the call named by call, made in the current state, had a write of an
\* account balance rejected
AccountWriteRejected(call) ==
    \/ /\ call.op = "createTransaction"
       /\ "account" \in call.input.fault
       /\ WritesToAccount(call.input)
    \/ /\ call.op = "deleteTransaction"
       /\ "account" \in call.input.fault
       /\ call.input.id \in DOMAIN transactions
       /\ WritesToAccount(transactions[call.input.id])
    \/ /\ call.op = "updateTransaction"
       /\ call.input.fault \cap {"accountOld", "accountNew"} # {}
       /\ call.input.id \in DOMAIN transactions
       /\ WritesToAccount(transactions[call.input.id])
       /\ "amount" \in DOMAIN call.input.updates
       /\ call.input.updates.amount # transactions[call.input.id].amount
    \/ /\ call.op = "recalculateAccountBalances"
       /\ Len(budgets) > 0
       /\ \E a \in DOMAIN accounts \ call.input.done :
             accounts[a].balance # LogAccountBalance(a)

\* C13: a rejected write of an account balance during createTransaction,
\* updateTransaction, deleteTransaction or recalculateAccountBalances makes
\* the call fail; the call never reports success.
C13_AccountWriteFailureSurfaces ==
    [][AccountWriteRejected(last') => last'.error # OK]_vars

\* C14: a transferBetweenAccounts, successful or not, leaves every
\* category's currentAmount as it was; and a successful one between
\* accounts that are on-budget and not closed leaves getUnassignedBalance
\* as it was.
C14_AccountTransferKeepsCategories ==
    [][last'.op = "transferBetweenAccounts"
       => /\ CategoryAmounts(Store)' = CategoryAmounts(Store)
          /\ (/\ last'.error = OK
              /\ \A a \in {last'.input.fromAccountId, last'.input.toAccountId} :
                    accounts[a].isOnBudget /\ ~accounts[a].isClosed)
                => getUnassignedBalance(Store, encryptionPassword)'
                      = getUnassignedBalance(Store, encryptionPassword)]_vars

\* C15: every stored transaction's accountId is the id of a stored
\* account, the transactions that createTransfer synthesizes and those
\* that remain after deleteAccount included.
C15_TransactionAccountsStored ==
    \A i \in DOMAIN transactions : transactions[i].accountId \in DOMAIN accounts

\* C16: while a password is set, every record a create or update
\* operation writes to the budgets, accounts, categories, transactions and
\* transfers stores is an encrypted envelope, never a plaintext entity.
C16_WritesAreEnvelopes ==
    [][encryptionPassword # NULL
       => \A w \in WrittenRecords(Store, Store') : IsEnvelope(w)]_vars

\* C17: the snapshot exportData returns contains every stored budget,
\* account, category, transaction and transfer.
C17_ExportHoldsEveryRecord ==
    mark.state = "exported"
        => \A s \in {"budgets"} \cup EntityStores :
              \A id \in DOMAIN Store[s] :
                 /\ s \in DOMAIN mark.snapshot
                 /\ id \in DOMAIN mark.snapshot[s]
                 /\ mark.snapshot[s][id] = Store[s][id]

\* C18: when transferBetweenAccounts returns, with success or with an
\* error, the call has stored both of its legs or neither; no leg is left
\* alone after a rollback.
C18_BothLegsOrNeither ==
    [][last'.op = "transferBetweenAccounts"
       => Cardinality(DOMAIN transactions' \ DOMAIN transactions) \in {0, 2}]_vars

\* C19: a successful deleteTransaction of a transaction tagged
\* "account-transfer" subtracts the transaction's amount from the balance
\* of its account; and once both legs of a successful
\* transferBetweenAccounts are deleted, the two accounts hold the balances
\* they held before the transfer.
C19_DeletingLegsRestoresBalances ==
    /\ [][(/\ last'.op = "deleteTransaction" /\ last'.error = OK
            /\ ACCOUNT_TRANSFER_TAG \in transactions[last'.input.id].tags
            /\ transactions[last'.input.id].accountId \in DOMAIN accounts)
           => LET t == transactions[last'.input.id]
              IN  accounts'[t.accountId].balance
                      = accounts[t.accountId].balance - t.amount]_vars
    /\ [](mark.state = "transferred" /\ mark.legs = {}
            => \A a \in {mark.input.fromAccountId, mark.input.toAccountId} :
                  accounts[a].balance = mark.before.accounts[a].balance)

\* C20: a successful updateTransaction that changes the amount of a stored
\* transaction or moves it to another account changes every account's
\* balance by what the change adds to or takes from the account's sum in
\* the log, for a transaction tagged "account-transfer" as for any other
\* the log counts.
C20_UpdateKeepsAccountsInStep ==
    [][(/\ last'.op = "updateTransaction" /\ last'.error = OK
        /\ last'.input.id \in DOMAIN transactions
        /\ TRANSFER_TAG \notin transactions[last'.input.id].tags
        /\ \/ transactions'[last'.input.id].amount
                 # transactions[last'.input.id].amount
           \/ transactions'[last'.input.id].accountId
                 # transactions[last'.input.id].accountId)
       => \A a \in DOMAIN accounts :
             accounts'[a].balance - accounts[a].balance
                = LogAccountBalance(a)' - LogAccountBalance(a)]_vars

\* the endpoints of a category transfer that are UNASSIGNED
UnassignedEndpoints(t) ==
    {e \in {"fromCategoryId", "toCategoryId"} : t[e] = UNASSIGNED_CATEGORY_ID}

\* what a transfer of t.amount adds to the currentAmount of category c
TransferDelta(t, c) ==
    (IF t.toCategoryId = c THEN t.amount ELSE 0)
      - (IF t.fromCategoryId = c THEN t.amount ELSE 0)

\* C21: a successful createTransfer of amount a with exactly one UNASSIGNED
\* endpoint stores exactly one new transaction, tagged "transfer", filed
\* under UNASSIGNED, of amount -a when the money leaves UNASSIGNED and +a
\* when it returns; the one real category gains or loses a and no other
\* category changes; no account balance changes; and getUnassignedBalance
\* moves by -a or +a.
C21_UnassignedTransferEffect ==
    [][(/\ last'.op = "createTransfer" /\ last'.error = OK
        /\ Cardinality(UnassignedEndpoints(last'.input)) = 1)
       => LET t == last'.input
              out == t.fromCategoryId = UNASSIGNED_CATEGORY_ID
              signed == IF out THEN 0 - t.amount ELSE t.amount
              new == DOMAIN transactions' \ DOMAIN transactions
          IN  /\ Cardinality(new) = 1
              /\ \A n \in new :
                    /\ TRANSFER_TAG \in transactions'[n].tags
                    /\ transactions'[n].categoryId = UNASSIGNED_CATEGORY_ID
                    /\ transactions'[n].amount = signed
              /\ \A n \in DOMAIN transactions :
                    n \in DOMAIN transactions' /\ transactions'[n] = transactions[n]
              /\ \A c \in DOMAIN categories :
                    categories'[c].currentAmount
                        = categories[c].currentAmount + TransferDelta(t, c)
              /\ AccountBalances(Store)' = AccountBalances(Store)
              /\ getUnassignedBalance(Store, encryptionPassword)'
                    = getUnassignedBalance(Store, encryptionPassword) + signed]_vars

C21_Witness ==
    /\ last.op = "createTransfer" /\ last.error = OK
    /\ last.input.toCategoryId = UNASSIGNED_CATEGORY_ID
    /\ DOMAIN categories = CategoryIds
    /\ Len(budgets) > 0
    /\ \E a \in DOMAIN accounts : accounts[a].balance > 0
    /\ categories[last.input.fromCategoryId].currentAmount < 0

\* C22: createTransfer of amount a between two distinct stored categories
\* succeeds whatever the source holds, takes a from the source and adds a
\* to the destination in either completion order of its two writes, stores
\* no transaction and changes no account balance.
C22_CategoryTransferEffect ==
    [][(/\ last'.op = "createTransfer"
        /\ last'.input.fromCategoryId \in DOMAIN categories
        /\ last'.input.toCategoryId \in DOMAIN categories
        /\ last'.input.fromCategoryId # last'.input.toCategoryId)
       => /\ last'.error = OK
          /\ \A c \in DOMAIN categories :
                categories'[c].currentAmount
                    = categories[c].currentAmount + TransferDelta(last'.input, c)
          /\ transactions' = transactions
          /\ AccountBalances(Store)' = AccountBalances(Store)]_vars

C22_Witness ==
    /\ last.op = "createTransfer" /\ last.error = OK
    /\ UnassignedEndpoints(last.input) = {}
    /\ categories[last.input.fromCategoryId].currentAmount < 0
    /\ \E a \in DOMAIN accounts : accounts[a].balance > 0

\* the transaction the createTransfer held by mark synthesized: the one
\* record the call added to the transactions it found
SynthesizedBy(m) == {FreshId(DOMAIN m.before.transactions)}

\* C23: deleteTransfer deletes at most one transaction, and when it
\* deletes one it is the transaction createTransfer synthesized for the
\* transfer being deleted, not a transaction the user entered and not the
\* one synthesized for another transfer.
C23_DeleteTransferDeletesOwn ==
    [][last'.op = "deleteTransfer"
       => LET deleted == DOMAIN transactions \ DOMAIN transactions'
          IN  /\ Cardinality(deleted) <= 1
              /\ (/\ mark.state = "created" /\ mark.op = "createTransfer"
                  /\ last'.input.id = mark.id)
                    => deleted \subseteq SynthesizedBy(mark)]_vars

\* C24: a successful createTransaction of amount a with no category and
\* neither transfer tag, against a stored account that is on-budget and not
\* closed, raises getUnassignedBalance by exactly a.
C24_UncategorizedCountedOnce ==
    [][(/\ last'.op = "createTransaction" /\ last'.error = OK
        /\ last'.input.fault = {}
        /\ last'.input.categoryId = NULL
        /\ last'.input.tags \cap {TRANSFER_TAG, ACCOUNT_TRANSFER_TAG} = {}
        /\ last'.input.accountId \in DOMAIN accounts
        /\ accounts[last'.input.accountId].isOnBudget
        /\ ~accounts[last'.input.accountId].isClosed)
       => getUnassignedBalance(Store, encryptionPassword)'
            = getUnassignedBalance(Store, encryptionPassword)
                + last'.input.amount]_vars

\* C25 as stated: a successful deleteTransaction of a transaction tagged
\* "transfer" subtracts the transaction's amount from the balance of its
\* account and from the currentAmount of its category, when that is a
\* stored category.
C25_TransferTaggedDeleteReverses ==
    [][(/\ last'.op = "deleteTransaction" /\ last'.error = OK
        /\ TRANSFER_TAG \in transactions[last'.input.id].tags
        /\ transactions[last'.input.id].accountId \in DOMAIN accounts)
       => LET t == transactions[last'.input.id]
          IN  /\ accounts'[t.accountId].balance
                    = accounts[t.accountId].balance - t.amount
              /\ t.categoryId \in DOMAIN categories
                    => categories'[t.categoryId].currentAmount
                          = categories[t.categoryId].currentAmount - t.amount]_vars

\* C25: a successful deleteTransaction of a transaction tagged "transfer"
\* and not "account-transfer" reverses nothing: every account balance and
\* every category's currentAmount stay as they were.
C25_TransferTaggedDeleteKeepsBalances ==
    [][(/\ last'.op = "deleteTransaction" /\ last'.error = OK
        /\ TRANSFER_TAG \in transactions[last'.input.id].tags
        /\ ACCOUNT_TRANSFER_TAG \notin transactions[last'.input.id].tags)
       => Balances' = Balances]_vars

C25_Witness ==
    /\ last.op = "deleteTransaction" /\ last.error = OK
    /\ mark.state = "undone" /\ mark.op = "createTransaction"
    /\ mark.input.tags = {TRANSFER_TAG}
    /\ mark.input.accountId \in DOMAIN accounts
    /\ mark.input.categoryId \in DOMAIN categories
    /\ mark.input.amount # 0

\* C26: createTransfer stores the Transfer record last: a call that stored
\* one has stored its synthesized transaction, if it has one, and made all
\* its category edits; and a call that ends in an error, because one of
\* those writes was rejected, stores no Transfer record.
C26_TransferRecordLast ==
    [][last'.op = "createTransfer"
       => /\ last'.error # OK => transfers' = transfers
          /\ transfers' # transfers
                => /\ last'.error = OK
                   /\ Cardinality(DOMAIN transactions' \ DOMAIN transactions)
                        = Cardinality(UnassignedEndpoints(last'.input))
                   /\ \A c \in DOMAIN categories :
                         categories'[c].currentAmount
                            = categories[c].currentAmount
                                + TransferDelta(last'.input, c)]_vars

C26_Witness ==
    /\ last.op = "createTransfer"
    /\ last.error = "Failed to update data in categories"
    /\ last.input.fault = {"categoryTo"}
    /\ UnassignedEndpoints(last.input) = {}
    /\ categories[last.input.fromCategoryId].currentAmount < 0
    /\ transfers = <<>>

CategoryWriteFailed == "Failed to update data in categories"

\* C27: createTransaction and updateTransaction write the category
\* balances first, the account balances next and the transaction record
\* last: a call that fails at a category write leaves every account balance
\* and the transaction store as they were, and only a call that succeeds
\* changes the transaction store.
C27_CategoryWritesFirst ==
    [][last'.op \in {"createTransaction", "updateTransaction"}
       => /\ last'.error = CategoryWriteFailed
                => /\ AccountBalances(Store)' = AccountBalances(Store)
                   /\ transactions' = transactions
          /\ transactions' # transactions => last'.error = OK]_vars

C27_Witness ==
    /\ last.op = "updateTransaction"
    /\ last.error = CategoryWriteFailed
    /\ last.input.fault = {"categoryNew"}
    /\ last.input.id \in DOMAIN transactions
    /\ "amount" \in DOMAIN last.input.updates
    /\ last.input.updates.amount # transactions[last.input.id].amount
    /\ "a1" \in DOMAIN accounts /\ accounts["a1"].balance # 0

\* no call of createTransaction is between its first read and its return
NoneRunning == \A p \in Callers : ~Running(p)

\* C28: when the calls of createTransaction on one category and one account
\* ran one at a time, the stored balances hold the amount of every stored
\* transaction; the state in which two transactions are stored and a
\* balance holds the amount of one of them only is reached only by calls
\* that overlapped.
C28_SerialCallsLoseNothing ==
    (NoneRunning /\ ~inflight.overlapped)
        => /\ \A c \in DOMAIN categories :
                categories[c].currentAmount = LogCategoryAmount(c)
           /\ \A a \in DOMAIN accounts : accounts[a].balance = LogAccountBalance(a)

\* the lost update: both calls returned, both transactions are stored, and
\* the category and the account hold the amount of one of them
C28_Witness ==
    /\ NoneRunning /\ inflight.overlapped
    /\ Cardinality(DOMAIN transactions) = 2
    /\ \E t \in DOMAIN transactions :
          /\ categories["c1"].currentAmount = transactions[t].amount
          /\ accounts["a1"].balance = transactions[t].amount

\* C29: a successful transfer whose source and destination are one stored
\* category (createTransfer) or one stored account (transferBetweenAccounts)
\* leaves the balance of that category or account as it was, in either
\* completion order of the two parallel balance writes.
C29_SelfTransferKeepsBalance ==
    [][/\ (/\ last'.op = "createTransfer" /\ last'.error = OK
           /\ last'.input.fromCategoryId = last'.input.toCategoryId
           /\ last'.input.fromCategoryId \in DOMAIN categories)
          => categories'[last'.input.fromCategoryId].currentAmount
                = categories[last'.input.fromCategoryId].currentAmount
       /\ (/\ last'.op = "transferBetweenAccounts" /\ last'.error = OK
           /\ last'.input.fromAccountId = last'.input.toAccountId)
          => accounts'[last'.input.fromAccountId].balance
                = accounts[last'.input.fromAccountId].balance]_vars

\* C30: a successful transferBetweenAccounts of any integer amount, zero
\* and negative amounts included, leaves neither its source nor its
\* destination below zero if the account was not below zero before.
C30_TransferKeepsNonNegative ==
    [][(last'.op = "transferBetweenAccounts" /\ last'.error = OK)
       => \A a \in {last'.input.fromAccountId, last'.input.toAccountId} :
             accounts[a].balance >= 0 => accounts'[a].balance >= 0]_vars

\* C31: after recalculateAccountBalances completes, every stored account's
\* balance equals the sum of the amounts of the stored transactions with its
\* accountId that are not tagged "transfer" ("account-transfer" legs count).
C31_RecalculateRestoresAccounts ==
    last.op = "recalculateAccountBalances"
        => \A a \in DOMAIN accounts : accounts[a].balance = LogAccountBalance(a)

\* the unassigned balance as the property states it
StatedUnassignedBalance ==
    SumOver([a \in DOMAIN accounts |-> accounts[a].balance],
            {a \in DOMAIN accounts :
                accounts[a].isOnBudget /\ ~accounts[a].isClosed})
      + SumOver(Amounts(transactions),
                {t \in DOMAIN transactions :
                    /\ transactions[t].categoryId = NULL
                    /\ transactions[t].tags
                          \cap {TRANSFER_TAG, ACCOUNT_TRANSFER_TAG} = {}})
      - SumOver([c \in DOMAIN categories |-> categories[c].currentAmount],
                DOMAIN categories)

\* C32: getUnassignedBalance returns the balances of all on-budget,
\* non-closed accounts plus the amounts of the transactions with null
\* categoryId and neither transfer tag minus the currentAmount of all
\* categories; getUnassignedBalance and getBudgetSummary write to no store.
C32_UnassignedBalanceAsStated ==
    /\ last.op \in {"getUnassignedBalance", "getBudgetSummary"}
          => Store = last.before
    /\ last.op = "getUnassignedBalance" => last.value = StatedUnassignedBalance

\* the call got past its checks and balance writes, a leg was rejected and
\* so was a compensating balance write
RollbackFailed(call, accts) ==
    /\ LegCreationFailed(call, accts)
    /\ call.input.fault \cap {"rollback-from", "rollback-to"} # {}

\* the errors the same call returns from the same stores when the same leg
\* is rejected and both compensating writes go through
RolledBackErrors(call) ==
    {transferBetweenAccounts(Store, DEFAULT_PASSWORD, encryptionPassword,
         call.input, o,
         call.input.fault \ {"rollback-from", "rollback-to"}).error :
        o \in Orders}

\* C33: when a leg of transferBetweenAccounts cannot be created and the
\* compensating balance rollback fails too, the call returns an error, and
\* that error differs from the one the call returns when the leg fails and
\* the rollback succeeds.
C33_DoubleFailureDistinct ==
    [][RollbackFailed(last', accounts)
       => /\ last'.error # OK
          /\ last'.error \notin RolledBackErrors(last')]_vars

C33_Witness ==
    /\ last.op = "transferBetweenAccounts"
    /\ last.input.fault = {"outgoing", "rollback-from"}
    /\ last.input.fromAccountId # last.input.toAccountId
    /\ last.error = "Failed to update account"


C35_RecalculateWritesOnlyStale ==
    /\ [][last'.op = "recalculateCategoryBalances"
          => \A c \in last'.input.written :
                categories[c].currentAmount # LogCategoryAmount(c)]_vars
    /\ []((mark.state = "recalculated" /\ mark.runs = 2)
            => last.input.written = {})

\* a second run right after a run that rewrote a drifted category
C35_Witness ==
    /\ last.op = "recalculateCategoryBalances"
    /\ mark.state = "recalculated" /\ mark.runs = 2
    /\ mark.first # {}
    /\ DOMAIN categories \ mark.first # {}

\* C36: a successful createTransaction that names a stored account and
\* carries neither transfer tag raises that account's balance by the
\* transaction's amount, whatever password the service was initialized with.
C36_AccountCreditedUnderAnyPassword ==
    [][(/\ last'.op = "createTransaction" /\ last'.error = OK
        /\ last'.input.accountId \in DOMAIN accounts
        /\ last'.input.tags \cap {TRANSFER_TAG, ACCOUNT_TRANSFER_TAG} = {})
       => accounts'[last'.input.accountId].balance
            = accounts[last'.input.accountId].balance + last'.input.amount]_vars

\* C37: after clearAllData completes no budget, account, category,
\* transaction or transfer record remains in the store.
C37_ClearAllDataLeavesNothing ==
    last.op = "clearAllData"
        => /\ budgets = <<>>
           /\ accounts = <<>>
           /\ categories = <<>>
           /\ transactions = <<>>
           /\ transfers = <<>>

\* the cached queries that show a balance of the two accounts of a transfer
BalanceQueries(data) ==
    {AccountsKey(accounts[a].budgetId) :
        a \in {data.fromAccountId, data.toAccountId}}
    \cup {AccountKey(data.fromAccountId), AccountKey(data.toAccountId)}

\* C38: after a successful transferBetweenAccounts mutation the cached
\* account list of the budget that owns the two accounts and the cached
\* queries of both accounts are invalidated.
C38_TransferInvalidatesAccountQueries ==
    [][(last'.op = "transferBetweenAccounts" /\ last'.error = OK)
       => \A key \in BalanceQueries(last'.input) \cap DOMAIN queries :
             queries'[key].isInvalidated]_vars

\* the mutations that can change what getUnassignedBalance returns
BalanceMutations ==
    {"createTransaction", "updateTransaction", "deleteTransaction",
     "createTransfer", "deleteTransfer", "deleteCategory",
     "createAccount", "updateAccount", "deleteAccount",
     "transferBetweenAccounts"}

\* C39: once a successful mutation that can change getUnassignedBalance has
\* settled, the cached 'unassigned-balance' query is invalidated or holds
\* the value the stores give.
C39_MutationsInvalidateUnassigned ==
    [][(/\ last'.op \in BalanceMutations /\ last'.error = OK
        /\ UnassignedBalanceKey \in DOMAIN queries)
       => \/ queries'[UnassignedBalanceKey].isInvalidated
          \/ queries'[UnassignedBalanceKey].data
               = getUnassignedBalance(Store, encryptionPassword)']_vars

====
